---- MODULE Spec2Model ----
(***************************************************************************)
(* Five Crowns scorer: the Game engine (game.js), the Statistics engine    *)
(* (statistics.js), the Storage module (storage.js) and the application    *)
(* handlers that connect them (app.js).                                    *)
(*                                                                         *)
(* Data representation                                                     *)
(*   - a player name is a sequence of one-character strings, so that       *)
(*     String.prototype.trim is an operator that really strips blanks;     *)
(*   - a score cell is <<>> for null and <<v>> for the number v;           *)
(*   - localStorage slots are <<>> when absent and <<value>> otherwise;    *)
(*   - JavaScript arrays are objects: a history record created by          *)
(*     saveGame(game.exportState()) holds the very arrays the live game    *)
(*     holds.  A record's field `shared` is TRUE while its players/scores  *)
(*     arrays are the live game's arrays, so every in-place write of the   *)
(*     game (push, splice, scores[i][r] = x) is also a write of the        *)
(*     record; an operation that assigns fresh arrays to the game ends     *)
(*     the sharing.                                                        *)
(***************************************************************************)
EXTENDS Integers, Sequences, FiniteSets, TLC

VARIABLES
    players,        \* Game.players
    scores,         \* Game.scores
    currentRound,   \* Game.currentRound
    stored,         \* localStorage['fiveCrownsGame']
    history,        \* Statistics.history
    storedHistory,  \* localStorage['fiveCrownsHistory']
    clock,          \* the reading Date.now() gives
    currentView,    \* UI.currentView
    elements,       \* UI.elements: what the page holds in #playerList and #scoreInputs
    ret             \* outcome of the last call: operation, completion, value

vars == <<players, scores, currentRound, stored, history, storedHistory, clock,
          currentView, elements, ret>>

(***************************************************************************)
(* Program constants                                                       *)
(***************************************************************************)
maxRounds == 11
roundCards == <<3, 4, 5, 6, 7, 8, 9, 10, 11, 12, 13>>
MAX_HISTORY == 50

(***************************************************************************)
(* Bounds of the model                                                     *)
(***************************************************************************)
MaxPlayers == 3     \* longest roster / name list the environment supplies
MaxClock == 51      \* Date.now() readings are 0..MaxClock
MaxBurst == 2       \* log length below which a save may share a tick or straddle two
MaxGames == 2       \* records the application adds to the history per run
MaxUndo == 1        \* the user takes back only the last MaxUndo rounds of a game
MaxVaried == 2      \* rounds of SpecPlay in which the score list is chosen freely
MaxSaves == 1       \* clock reading from which a run of SpecQuota saves no more games
MaxQuotaRound == 2  \* last round scored in a run of SpecQuota
MaxStatGames == 4   \* records of the log of a run of SpecStats
MaxStatClock == 2   \* last Date.now() reading of a run of SpecStats
MaxMerge == 2       \* clock reading from which a run of SpecMerge saves no more games
MaxBlankRound == 1  \* last round in which the user leaves the score fields blank
MaxEditRound == 2   \* addPlayer/removePlayer are called while currentRound <= MaxEditRound
MaxEditRows == 0    \* rows of scores up to which the user edits the roster in the application
MaxViewRound == 1   \* last round of a game in play at which the user changes section or reloads

(***************************************************************************)
(* Values                                                                  *)
(***************************************************************************)
Null == <<>>
Num(v) == <<v>>
Absent == <<>>
Present(v) == <<v>>

Min(a, b) == IF a <= b THEN a ELSE b

\* Array.prototype.slice(0, n)
slice(s, n) == SubSeq(s, 1, Min(n, Len(s)))

\* the array that a rule gives element by element, written out
ArrayOf(items) == SubSeq(items, 1, Len(items))

\* Array.prototype.includes
includes(s, x) == \E i \in 1..Len(s) : s[i] = x

\* Array.prototype.splice(index, 1), index counted from 0
splice(s, index) == SubSeq(s, 1, index) \o SubSeq(s, index + 2, Len(s))

RECURSIVE trimStart(_)
trimStart(s) == IF s # <<>> /\ Head(s) = " " THEN trimStart(Tail(s)) ELSE s

RECURSIVE trimEnd(_)
trimEnd(s) ==
    IF s # <<>> /\ s[Len(s)] = " " THEN trimEnd(SubSeq(s, 1, Len(s) - 1)) ELSE s

\* String.prototype.trim
trim(s) == trimEnd(trimStart(s))

(***************************************************************************)
(* Game (game.js).  A game value is [players, scores, currentRound]; each  *)
(* method is an operator from the game before the call to the outcome:     *)
(*   g      the game after the call,                                       *)
(*   ok     FALSE when the call threw,                                     *)
(*   value  what it returned ("undefined" when nothing or when it threw),  *)
(*   save   TRUE when the call reached this.saveState(),                   *)
(*   clear  TRUE when the call reached Storage.clear(),                    *)
(*   fresh  TRUE when the call assigned new arrays to players and scores.  *)
(***************************************************************************)
Outcome(g, ok, value, save, clear, fresh) ==
    [g |-> g, ok |-> ok, value |-> value, save |-> save, clear |-> clear,
     fresh |-> fresh]

Threw(g) == Outcome(g, FALSE, "undefined", FALSE, FALSE, FALSE)

Bool(b) == IF b THEN "true" ELSE "false"

\* constructor
NewGame == [players |-> <<>>, scores |-> <<>>, currentRound |-> 1]

\* mutant: >= for >
isGameComplete_atLastRound(g) == g.currentRound >= maxRounds

isGameComplete(g) == g.currentRound > maxRounds

\* mutant: the row count is taken from the roster of the game before the call
startNewGame_oldRoster(g, playerNames) ==
    IF Len(playerNames) < 2
    THEN Outcome(g, FALSE, "undefined", FALSE, FALSE, FALSE)
    ELSE Outcome([players |-> playerNames,
                  scores |-> [i \in 1..Len(g.players) |->
                                 [r \in 1..maxRounds |-> Null]],
                  currentRound |-> 1],
                 TRUE, "undefined", TRUE, FALSE, TRUE)

\* mutant: the length check comes after the assignments
startNewGame_checkAfterAssign(g, playerNames) ==
    LET h == [players |-> playerNames,
              scores |-> [i \in 1..Len(playerNames) |->
                             [r \in 1..maxRounds |-> Null]],
              currentRound |-> 1]
    IN  IF Len(playerNames) < 2
        THEN Outcome(h, FALSE, "undefined", FALSE, FALSE, TRUE)
        ELSE Outcome(h, TRUE, "undefined", TRUE, FALSE, TRUE)

\* mutant: the round reached is kept
startNewGame_keepRound(g, playerNames) ==
    IF Len(playerNames) < 2
    THEN Threw(g)
    ELSE Outcome([players |-> playerNames,
                  scores |-> [i \in 1..Len(playerNames) |->
                                 [r \in 1..maxRounds |-> Null]],
                  currentRound |-> g.currentRound],
                 TRUE, "undefined", TRUE, FALSE, TRUE)

startNewGame(g, playerNames) ==
    IF Len(playerNames) < 2
    THEN Threw(g)
    ELSE Outcome([players |-> playerNames,
                  scores |-> [i \in 1..Len(playerNames) |->
                                 [r \in 1..maxRounds |-> Null]],
                  currentRound |-> 1],
                 TRUE, "undefined", TRUE, FALSE, TRUE)

\* mutant: the duplicate check compares the name as typed
addPlayer_rawDuplicateCheck(g, name) ==
    LET trimmedName == trim(name) IN
    IF trimmedName = <<>>
    THEN Threw(g)
    ELSE IF includes(g.players, name)
    THEN Threw(g)
    ELSE Outcome([g EXCEPT !.players = Append(@, trimmedName)],
                 TRUE, "true", FALSE, FALSE, FALSE)

addPlayer(g, name) ==
    LET trimmedName == trim(name) IN
    IF trimmedName = <<>>
    THEN Threw(g)
    ELSE IF includes(g.players, trimmedName)
    THEN Threw(g)
    ELSE Outcome([g EXCEPT !.players = Append(@, trimmedName)],
                 TRUE, "true", FALSE, FALSE, FALSE)

\* mutant: the index counts from 1
removePlayer_fromOne(g, index) ==
    IF index >= 1 /\ index <= Len(g.players)
    THEN Outcome([g EXCEPT !.players = splice(@, index - 1)],
                 TRUE, "undefined", FALSE, FALSE, FALSE)
    ELSE Outcome(g, TRUE, "undefined", FALSE, FALSE, FALSE)

removePlayer(g, index) ==
    IF index >= 0 /\ index < Len(g.players)
    THEN Outcome([g EXCEPT !.players = splice(@, index)],
                 TRUE, "undefined", FALSE, FALSE, FALSE)
    ELSE Outcome(g, TRUE, "undefined", FALSE, FALSE, FALSE)

\* mutant: every row gets the first score of the list
writeColumn_firstScore(sc, n, col, cell) ==
    [i \in 1..Len(sc) |->
        IF i <= n THEN [sc[i] EXCEPT ![col] = cell[1]] ELSE sc[i]]

\* scores after forEach wrote cell `col` of the rows 1..n that exist
writeColumn(sc, n, col, cell) ==
    [i \in 1..Len(sc) |->
        IF i <= n THEN [sc[i] EXCEPT ![col] = cell[i]] ELSE sc[i]]

\* mutant: the length check comes after the scores were written
submitRound_checkAfterWrite(g, roundScores) ==
    IF g.currentRound > maxRounds
    THEN Threw(g)
    ELSE LET n == Min(Len(roundScores), Len(g.players))
             written == writeColumn(g.scores, n, g.currentRound, roundScores)
         IN  IF Len(roundScores) # Len(g.players) \/ Len(roundScores) > Len(g.scores)
             THEN Outcome([g EXCEPT !.scores = written],
                          FALSE, "undefined", FALSE, FALSE, FALSE)
             ELSE LET h == [g EXCEPT !.scores = written,
                                     !.currentRound = @ + 1]
                  IN  Outcome(h, TRUE, Bool(isGameComplete(h)),
                              TRUE, FALSE, FALSE)

\* mutant: no check that the game is complete
submitRound_noCompleteCheck(g, roundScores) ==
    IF Len(roundScores) # Len(g.players)
    THEN Threw(g)
    ELSE LET h == [g EXCEPT !.currentRound = @ + 1]
         IN  Outcome(h, Len(roundScores) <= Len(g.scores),
                     Bool(isGameComplete(h)), TRUE, FALSE, FALSE)

\* The forEach writes this.scores[index][...] for index = 0, 1, ...: when the
\* roster is longer than the matrix, this.scores[index] is undefined at the
\* first missing row and the write throws a TypeError after the rows before
\* it were written; currentRound++ and saveState() are then not reached.
\* mutant: the round is not saved
submitRound_noSave(g, roundScores) ==
    IF g.currentRound > maxRounds THEN Threw(g)
    ELSE IF Len(roundScores) # Len(g.players) THEN Threw(g)
    ELSE LET written == writeColumn(g.scores, Len(roundScores), g.currentRound, roundScores)
         IN  IF Len(roundScores) > Len(g.scores)
             THEN Outcome([g EXCEPT !.scores = written], FALSE, "undefined", FALSE, FALSE, FALSE)
             ELSE LET h == [g EXCEPT !.scores = written, !.currentRound = @ + 1]
                  IN  Outcome(h, TRUE, Bool(isGameComplete(h)), FALSE, FALSE, FALSE)

submitRound(g, roundScores) ==
    IF g.currentRound > maxRounds
    THEN Threw(g)
    ELSE IF Len(roundScores) # Len(g.players)
    THEN Threw(g)
    ELSE LET written == writeColumn(g.scores, Len(roundScores),
                                    g.currentRound, roundScores)
         IN  IF Len(roundScores) > Len(g.scores)
             THEN Outcome([g EXCEPT !.scores = written],
                          FALSE, "undefined", FALSE, FALSE, FALSE)
             ELSE LET h == [g EXCEPT !.scores = written,
                                     !.currentRound = @ + 1]
                  IN  Outcome(h, TRUE, Bool(isGameComplete(h)),
                              TRUE, FALSE, FALSE)

\* currentRound-- comes before the forEach over the players, which throws a
\* TypeError at the first player without a row, after the rows before it
\* were cleared; saveState() is then not reached.
\* mutant: a completed game refuses the undo
undoLastRound_notWhenComplete(g) ==
    IF g.currentRound = 1 \/ isGameComplete(g)
    THEN Threw(g)
    ELSE LET col == g.currentRound - 1
             cleared == writeColumn(g.scores, Len(g.players), col,
                                    [i \in 1..Len(g.players) |-> Null])
             h == [g EXCEPT !.currentRound = col, !.scores = cleared]
         IN  IF Len(g.players) > Len(g.scores)
             THEN Outcome(h, FALSE, "undefined", FALSE, FALSE, FALSE)
             ELSE Outcome(h, TRUE, "undefined", TRUE, FALSE, FALSE)

\* mutant: no check of the first round
undoLastRound_noGuard(g) ==
    LET col == g.currentRound - 1
        h == [g EXCEPT !.currentRound = col]
    IN  IF col = 0 THEN Outcome(h, TRUE, "undefined", TRUE, FALSE, FALSE)
        ELSE Outcome([h EXCEPT !.scores =
                         writeColumn(g.scores, Len(g.players), col,
                                     [i \in 1..Len(g.players) |-> Null])],
                     Len(g.players) <= Len(g.scores), "undefined",
                     Len(g.players) <= Len(g.scores), FALSE, FALSE)

\* mutant: the first round is checked after the column is cleared and saved
undoLastRound_checkAfterClear(g) ==
    LET col == IF g.currentRound = 1 THEN 1 ELSE g.currentRound - 1
        cleared == writeColumn(g.scores, Len(g.players), col,
                               [i \in 1..Len(g.players) |-> Null])
        h == [g EXCEPT !.currentRound = col, !.scores = cleared]
    IN  IF Len(g.players) > Len(g.scores)
        THEN Outcome(h, FALSE, "undefined", FALSE, FALSE, FALSE)
        ELSE IF g.currentRound = 1
        THEN Outcome(h, FALSE, "undefined", TRUE, FALSE, FALSE)
        ELSE Outcome(h, TRUE, "undefined", TRUE, FALSE, FALSE)

\* mutant: the round is taken back without clearing its cells
undoLastRound_keepCells(g) ==
    IF g.currentRound = 1
    THEN Threw(g)
    ELSE IF Len(g.players) > Len(g.scores)
    THEN Outcome([g EXCEPT !.currentRound = @ - 1], FALSE, "undefined", FALSE, FALSE, FALSE)
    ELSE Outcome([g EXCEPT !.currentRound = @ - 1], TRUE, "undefined", TRUE, FALSE, FALSE)

undoLastRound(g) ==
    IF g.currentRound = 1
    THEN Threw(g)
    ELSE LET col == g.currentRound - 1
             cleared == writeColumn(g.scores, Len(g.players), col,
                                    [i \in 1..Len(g.players) |-> Null])
             h == [g EXCEPT !.currentRound = col, !.scores = cleared]
         IN  IF Len(g.players) > Len(g.scores)
             THEN Outcome(h, FALSE, "undefined", FALSE, FALSE, FALSE)
             ELSE Outcome(h, TRUE, "undefined", TRUE, FALSE, FALSE)

\* mutant: the stored snapshot is left in place
reset_noClear(g) == Outcome(NewGame, TRUE, "undefined", FALSE, FALSE, TRUE)

reset(g) == Outcome(NewGame, TRUE, "undefined", FALSE, TRUE, TRUE)

\* what saveState() hands to Storage.save, after JSON.stringify
saveState(g) ==
    [players |-> g.players, scores |-> g.scores, currentRound |-> g.currentRound]

\* Storage.load on the slot of localStorage: null when nothing is stored
Storage_load(slot) == slot

\* Storage.hasSavedGame
Storage_hasSavedGame(slot) == slot # Absent

\* Game.loadState on the slot of localStorage
loadState(g, slot) ==
    LET state == Storage_load(slot)
    IN  IF state # Absent
        THEN Outcome([players |-> state[1].players,
                      scores |-> state[1].scores,
                      currentRound |-> state[1].currentRound],
                     TRUE, "true", FALSE, FALSE, TRUE)
        ELSE Outcome(g, TRUE, "false", FALSE, FALSE, FALSE)

\* what exportState() returns: the game's own arrays, not copies
\* this.roundCards[this.currentRound - 1] is undefined (Absent) when the
\* index is outside the array.
getCurrentRoundInfo(g) ==
    [round |-> g.currentRound,
     cards |-> IF g.currentRound - 1 \in 0..Len(roundCards) - 1
               THEN Present(roundCards[g.currentRound])
               ELSE Absent,
     maxRounds |-> maxRounds]

exportState(g) ==
    [players |-> g.players, scores |-> g.scores, currentRound |-> g.currentRound,
     maxRounds |-> maxRounds, roundCards |-> roundCards]

\* The text of a game file.  kind "text" does not parse; kind "object" parses
\* to the envelope {version, exportDate, game}, game being Absent when the
\* key is missing.
GameFile(kind, exportDate, game) ==
    [kind |-> kind, version |-> "1.0", exportDate |-> exportDate, game |-> game]

\* Game.exportToJSON: the envelope around exportState(), as JSON text.
\* JSON.stringify copies the arrays and keeps numbers and nulls.
exportToJSON(g, now) == GameFile("object", now, Present(exportState(g)))

\* mutant: the game is emptied before the file is validated
importFromJSON_resetFirst(g, jsonData) ==
    IF jsonData.kind # "object"
    THEN Outcome(NewGame, FALSE, "undefined", FALSE, FALSE, TRUE)
    ELSE IF jsonData.game = Absent
    THEN Outcome(NewGame, FALSE, "undefined", FALSE, FALSE, TRUE)
    ELSE IF Len(jsonData.game[1].players) < 2
    THEN Outcome(NewGame, FALSE, "undefined", FALSE, FALSE, TRUE)
    ELSE Outcome([players |-> jsonData.game[1].players,
                  scores |-> jsonData.game[1].scores,
                  currentRound |-> jsonData.game[1].currentRound],
                 TRUE, "true", FALSE, FALSE, TRUE)

\* Game.importFromJSON: throws when the text is no JSON, when the game key is
\* missing and when game.players has fewer than 2 names; otherwise the game
\* takes players, scores and currentRound of the file and the call returns
\* true.
importFromJSON(g, jsonData) ==
    IF jsonData.kind # "object"
    THEN Threw(g)
    ELSE IF jsonData.game = Absent
    THEN Threw(g)
    ELSE IF Len(jsonData.game[1].players) < 2
    THEN Threw(g)
    ELSE Outcome([players |-> jsonData.game[1].players,
                  scores |-> jsonData.game[1].scores,
                  currentRound |-> jsonData.game[1].currentRound],
                 TRUE, "true", FALSE, FALSE, TRUE)

(***************************************************************************)
(* Statistics (statistics.js).  A history is a sequence of records, the    *)
(* most recent first.  Each method is an operator from the history before  *)
(* the call to the outcome: h the history after it, ok FALSE when it threw,*)
(* value what it returned, save TRUE when it reached this.saveHistory().   *)
(***************************************************************************)
StatOutcome(h, ok, value, save) ==
    [h |-> h, ok |-> ok, value |-> value, save |-> save]

\* Math.min() of no arguments; a pair, so that it is no number <<v>>
Infinity == <<0, 0>>

\* playerScores.reduce((sum, score) => sum + (score !== null ? score : 0), 0)
RECURSIVE reduceSum(_)
reduceSum(row) ==
    IF row = <<>> THEN 0
    ELSE reduceSum(SubSeq(row, 1, Len(row) - 1))
            + (IF row[Len(row)] # Null THEN row[Len(row)][1] ELSE 0)

\* Math.min(...totals), totals not empty
mathMin(totals) ==
    CHOOSE v \in { totals[i] : i \in 1..Len(totals) } :
        \A i \in 1..Len(totals) : v <= totals[i]

\* mutant: the last index holding x
indexOf_last(s, x) ==
    IF \E i \in 1..Len(s) : s[i] = x
    THEN (CHOOSE i \in 1..Len(s) : s[i] = x /\ \A j \in i + 1..Len(s) : s[j] # x) - 1
    ELSE -1

\* Array.prototype.indexOf: the first index (from 0) holding x, or -1
indexOf(s, x) ==
    IF \E i \in 1..Len(s) : s[i] = x
    THEN (CHOOSE i \in 1..Len(s) : s[i] = x /\ \A j \in 1..i - 1 : s[j] # x) - 1
    ELSE -1

\* array[index], index counted from 0: Absent is undefined
at(s, index) ==
    IF index >= 0 /\ index < Len(s) THEN Present(s[index + 1]) ELSE Absent

\* mutant: the first round is left out of the total
getPlayerTotal_skipFirst(g, playerIndex) ==
    IF playerIndex >= 0 /\ playerIndex < Len(g.scores)
    THEN Outcome(g, TRUE, Present(reduceSum(Tail(g.scores[playerIndex + 1]))),
                 FALSE, FALSE, FALSE)
    ELSE Outcome(g, FALSE, Absent, FALSE, FALSE, FALSE)

\* Game.getPlayerTotal: this.scores[playerIndex] is undefined for an index
\* without a row, and .reduce on it throws a TypeError
getPlayerTotal(g, playerIndex) ==
    IF playerIndex >= 0 /\ playerIndex < Len(g.scores)
    THEN Outcome(g, TRUE, Present(reduceSum(g.scores[playerIndex + 1])),
                 FALSE, FALSE, FALSE)
    ELSE Outcome(g, FALSE, Absent, FALSE, FALSE, FALSE)

\* Game.getAllTotals: this.players.map((_, index) => this.getPlayerTotal(index))
getAllTotals(g) ==
    IF \E i \in 1..Len(g.players) : ~getPlayerTotal(g, i - 1).ok
    THEN Outcome(g, FALSE, Absent, FALSE, FALSE, FALSE)
    ELSE Outcome(g, TRUE,
                 Present([i \in 1..Len(g.players) |-> getPlayerTotal(g, i - 1).value[1]]),
                 FALSE, FALSE, FALSE)

\* Game.getWinner: value Absent is null, Present(w) the object w
getWinner(g) ==
    IF ~isGameComplete(g)
    THEN Outcome(g, TRUE, Absent, FALSE, FALSE, FALSE)
    ELSE IF ~getAllTotals(g).ok
    THEN Outcome(g, FALSE, Absent, FALSE, FALSE, FALSE)
    ELSE LET totals == getAllTotals(g).value[1]
         IN  IF Len(totals) = 0
             THEN Outcome(g, TRUE,
                          Present([name |-> Absent, score |-> Infinity, index |-> -1]),
                          FALSE, FALSE, FALSE)
             ELSE LET minScore == mathMin(totals)
                      winnerIndex == indexOf(totals, minScore)
                  IN  Outcome(g, TRUE,
                              Present([name |-> at(g.players, winnerIndex),
                                       score |-> Num(minScore),
                                       index |-> winnerIndex]),
                              FALSE, FALSE, FALSE)

\* Statistics.determineWinner: totals of the rows of gameState.scores
determineWinner(gameState) ==
    LET totals == [i \in 1..Len(gameState.scores) |-> reduceSum(gameState.scores[i])]
    IN  IF Len(totals) = 0
        THEN [name |-> Absent, score |-> Infinity, index |-> -1]
        ELSE LET minScore == mathMin(totals)
                 winnerIndex == indexOf(totals, minScore)
             IN  [name |-> at(gameState.players, winnerIndex),
                  score |-> Num(minScore),
                  index |-> winnerIndex]

\* The record saveGame builds.  id and timestamp are two readings of Date.now().
\* shared: the record's players and scores are the arrays of the game state
\* passed in, which for game.exportState() are the live game's arrays.
\* totalRounds is scores[0].filter(s => s !== null).length.
gameRecord(gameState, id, timestamp, shared) ==
    [id |-> id,
     players |-> gameState.players,
     scores |-> gameState.scores,
     winner |-> determineWinner(gameState),
     totalRounds |-> Cardinality({ c \in 1..Len(gameState.scores[1]) :
                                       gameState.scores[1][c] # Null }),
     timestamp |-> timestamp,
     shared |-> shared]

\* mutant: the new record is pushed at the end and the last MAX_HISTORY kept
saveGame_push(h, gameState, id, timestamp, shared) ==
    IF Len(gameState.scores) = 0
    THEN StatOutcome(h, FALSE, Absent, FALSE)
    ELSE LET rec == gameRecord(gameState, id, timestamp, shared)
             all == Append(h, rec)
         IN  StatOutcome(IF Len(all) > MAX_HISTORY THEN Tail(all) ELSE all,
                         TRUE, Present(rec), TRUE)

\* gameState.scores[0] is undefined for an empty matrix: .filter throws a
\* TypeError before the record exists.
saveGame(h, gameState, id, timestamp, shared) ==
    IF Len(gameState.scores) = 0
    THEN StatOutcome(h, FALSE, Absent, FALSE)
    ELSE LET rec == gameRecord(gameState, id, timestamp, shared)
             unshifted == <<rec>> \o h
         IN  StatOutcome(IF Len(unshifted) > MAX_HISTORY
                         THEN slice(unshifted, MAX_HISTORY)
                         ELSE unshifted,
                         TRUE, Present(rec), TRUE)

deleteGame(h, gameId) ==
    LET keep(game) == game.id # gameId
    IN  StatOutcome(SelectSeq(h, keep), TRUE, Absent, TRUE)

clearHistory(h) == StatOutcome(<<>>, TRUE, Absent, TRUE)

\* [...].sort((a, b) => b.timestamp - a.timestamp): descending, and stable
\* (records of equal timestamp keep their order)
sortByTimestamp(s) ==
    LET key == ArrayOf([i \in 1..Len(s) |-> s[i].timestamp])
        place == ArrayOf([i \in 1..Len(s) |->
                             Cardinality({ j \in 1..Len(s) : key[j] > key[i] })
                           + Cardinality({ j \in 1..i : key[j] = key[i] })])
    IN  ArrayOf([p \in 1..Len(s) |-> s[CHOOSE i \in 1..Len(s) : place[i] = p]])

\* JSON.stringify(this.history): values, which share nothing with the game
toJSON(h) == [k \in 1..Len(h) |-> [h[k] EXCEPT !.shared = FALSE]]

\* The text handed to importHistory: kind "text" does not parse, "object"
\* parses to something that is no array, "array" parses to the entries
\* `games`, each a record `game` and the set `lacks` of the fields among
\* players, scores, winner that are missing (falsy) in it.
Payload(kind, games) == [kind |-> kind, games |-> games]
Entry(game, lacks) == [game |-> game, lacks |-> lacks]

exportHistory(h) ==
    Payload("array", [k \in 1..Len(h) |-> Entry(toJSON(h)[k], {})])

\* mutant: no truncation after the merge
importHistory_noSlice(h, jsonData) ==
    IF jsonData.kind # "array"
    THEN StatOutcome(h, TRUE, "false", FALSE)
    ELSE IF \E k \in 1..Len(jsonData.games) : jsonData.games[k].lacks # {}
    THEN StatOutcome(h, TRUE, "false", FALSE)
    ELSE LET existingIds == { h[k].id : k \in 1..Len(h) }
             isNew(e) == e.game.id \notin existingIds
             fresh == SelectSeq(jsonData.games, isNew)
             newGames == [k \in 1..Len(fresh) |-> fresh[k].game]
         IN  StatOutcome(sortByTimestamp(h \o newGames), TRUE, "true", TRUE)

\* mutant: the merged log is not sorted
importHistory_noSort(h, jsonData) ==
    IF jsonData.kind # "array"
    THEN StatOutcome(h, TRUE, "false", FALSE)
    ELSE IF \E k \in 1..Len(jsonData.games) : jsonData.games[k].lacks # {}
    THEN StatOutcome(h, TRUE, "false", FALSE)
    ELSE LET existingIds == { h[k].id : k \in 1..Len(h) }
             isNew(e) == e.game.id \notin existingIds
             fresh == SelectSeq(jsonData.games, isNew)
             newGames == [k \in 1..Len(fresh) |-> fresh[k].game]
         IN  StatOutcome(slice(h \o newGames, MAX_HISTORY), TRUE, "true", TRUE)

\* mutant: only the first record of the file is validated
importHistory_checkFirst(h, jsonData) ==
    IF jsonData.kind # "array"
    THEN StatOutcome(h, TRUE, "false", FALSE)
    ELSE IF jsonData.games # <<>> /\ jsonData.games[1].lacks # {}
    THEN StatOutcome(h, TRUE, "false", FALSE)
    ELSE LET existingIds == { h[k].id : k \in 1..Len(h) }
             isNew(e) == e.game.id \notin existingIds
             fresh == SelectSeq(jsonData.games, isNew)
             newGames == [k \in 1..Len(fresh) |-> fresh[k].game]
         IN  StatOutcome(slice(sortByTimestamp(h \o newGames), MAX_HISTORY),
                         TRUE, "true", TRUE)

\* Every failure is caught inside importHistory, which then returns false.
importHistory(h, jsonData) ==
    IF jsonData.kind # "array"
    THEN StatOutcome(h, TRUE, "false", FALSE)
    ELSE IF \E k \in 1..Len(jsonData.games) : jsonData.games[k].lacks # {}
    THEN StatOutcome(h, TRUE, "false", FALSE)
    ELSE LET existingIds == { h[k].id : k \in 1..Len(h) }
             isNew(e) == e.game.id \notin existingIds
             fresh == SelectSeq(jsonData.games, isNew)
             newGames == [k \in 1..Len(fresh) |-> fresh[k].game]
         IN  StatOutcome(slice(sortByTimestamp(h \o newGames), MAX_HISTORY),
                         TRUE, "true", TRUE)

\* Math.max(...values), values not empty
mathMax(values) ==
    CHOOSE v \in { values[i] : i \in 1..Len(values) } :
        \A i \in 1..Len(values) : v >= values[i]

\* allScores.reduce((a, b) => a + b, 0): the scores are integers and their
\* sums are exact, so that the sum of the halves is the sum in order
RECURSIVE reduceAdd(_)
reduceAdd(values) ==
    IF values = <<>> THEN 0
    ELSE IF Len(values) = 1 THEN values[1]
    ELSE reduceAdd(SubSeq(values, 1, Len(values) \div 2))
            + reduceAdd(SubSeq(values, Len(values) \div 2 + 1, Len(values)))

(***************************************************************************)
(* Numbers                                                                 *)
(*                                                                         *)
(* A finite JavaScript Number is the IEEE 754 binary64 value               *)
(* (-1)^neg * mant * 2^exp.  mant is a natural number of exactly 53 bits   *)
(* (empty for zero), written in base 65536 with the least significant      *)
(* digit first.  Exponents stay far from the ends of the binary64 range.   *)
(***************************************************************************)
Limb == 65536

Pow2(r) ==
    <<1, 2, 4, 8, 16, 32, 64, 128, 256, 512, 1024, 2048, 4096, 8192, 16384,
      32768>>[r + 1]

\* without the zero digits at the most significant end
RECURSIVE stripZeros(_)
stripZeros(a) ==
    IF a = <<>> THEN a
    ELSE IF a[Len(a)] = 0 THEN stripZeros(SubSeq(a, 1, Len(a) - 1))
    ELSE a

limb(a, i) == IF i <= Len(a) THEN a[i] ELSE 0

\* the digits of a natural number below 2^31
BigOf(n) == stripZeros(<<n % Limb, n \div Limb>>)

Zeroes(k) == [i \in 1..k |-> 0]

\* a + b + carry, from digit i on
RECURSIVE addBig(_, _, _, _)
addBig(a, b, i, carry) ==
    IF i > Len(a) /\ i > Len(b) THEN BigOf(carry)
    ELSE <<(limb(a, i) + limb(b, i) + carry) % Limb>>
             \o addBig(a, b, i + 1, (limb(a, i) + limb(b, i) + carry) \div Limb)

\* a - b - borrow, from digit i on, for a >= b
RECURSIVE subBig(_, _, _, _)
subBig(a, b, i, borrow) ==
    IF i > Len(a) THEN <<>>
    ELSE <<(limb(a, i) - limb(b, i) - borrow) % Limb>>
             \o subBig(a, b, i + 1,
                       IF limb(a, i) - limb(b, i) - borrow < 0 THEN 1 ELSE 0)

\* a * k + carry, from digit i on, for 0 < k <= 32768
RECURSIVE mulBig(_, _, _, _)
mulBig(a, k, i, carry) ==
    IF i > Len(a) THEN BigOf(carry)
    ELSE <<(a[i] * k + carry) % Limb>>
             \o mulBig(a, k, i + 1, (a[i] * k + carry) \div Limb)

\* the remainder of the digits i.. of a divided by d, for 0 < d <= 32768
RECURSIVE remBig(_, _, _)
remBig(a, d, i) ==
    IF i > Len(a) THEN 0 ELSE (remBig(a, d, i + 1) * Limb + a[i]) % d

\* the digits 1..i of the quotient of a by d, r the remainder of the digits
\* above i, for 0 < d <= 32768
RECURSIVE longDivision(_, _, _, _)
longDivision(a, d, i, r) ==
    IF i = 0 THEN <<>>
    ELSE longDivision(a, d, i - 1, (r * Limb + a[i]) % d)
             \o <<(r * Limb + a[i]) \div d>>

\* the quotient of a by d
divBig(a, d) == stripZeros(longDivision(a, d, Len(a), 0))

\* a < b
lessBig(a, b) ==
    \/ Len(a) < Len(b)
    \/ /\ Len(a) = Len(b)
       /\ \E i \in 1..Len(a) :
             /\ a[i] < b[i]
             /\ \A j \in i + 1..Len(a) : a[j] = b[j]

\* the number of bits of a
bitLength(a) ==
    IF a = <<>> THEN 0
    ELSE 16 * (Len(a) - 1)
           + (CHOOSE n \in 1..16 : Pow2(n - 1) <= a[Len(a)] /\ a[Len(a)] < 2 * Pow2(n - 1))

\* a * 2^k and the integer part of a / 2^k
shiftLeft(a, k) ==
    IF a = <<>> THEN a ELSE Zeroes(k \div 16) \o mulBig(a, Pow2(k % 16), 1, 0)

shiftRight(a, k) ==
    IF k >= bitLength(a) THEN <<>>
    ELSE IF k % 16 = 0 THEN SubSeq(a, k \div 16 + 1, Len(a))
    ELSE divBig(SubSeq(a, k \div 16 + 1, Len(a)), Pow2(k % 16))

\* the Number of magnitude m * 2^e, m of at most 53 bits or 2^53 itself
Number(neg, m, e) ==
    LET n == bitLength(m)
    IN  IF m = <<>> THEN [neg |-> FALSE, mant |-> <<>>, exp |-> 0]
        ELSE IF n > 53
        THEN [neg |-> neg, mant |-> shiftRight(m, 1), exp |-> e + 1]
        ELSE [neg |-> neg, mant |-> shiftLeft(m, 53 - n), exp |-> e - (53 - n)]

\* m * 2^e rounded to 53 bits: to the nearest, and to the even one of two
\* equally near.  `inexact` tells that m is the integer part of a magnitude
\* that has bits below it (m then has more than 53 bits).
roundTiesToEven(neg, m, inexact, e) ==
    LET k == bitLength(m) - 53
    IN  IF k <= 0 THEN Number(neg, m, e)
        ELSE LET kept == shiftRight(m, k)
                 j == k - 1
                 half == (limb(m, j \div 16 + 1) \div Pow2(j % 16)) % 2
                 below == \/ \E i \in 1..j \div 16 : limb(m, i) # 0
                          \/ limb(m, j \div 16 + 1) % Pow2(j % 16) # 0
                 up == /\ half = 1
                       /\ inexact \/ below \/ kept[1] % 2 = 1
             IN  Number(neg, IF up THEN addBig(kept, <<1>>, 1, 0) ELSE kept, e + k)

\* the Number of an integer
ToNumber(n) == Number(n < 0, BigOf(IF n < 0 THEN -n ELSE n), 0)

\* x / d, for an integer 0 < d <= 32768
divide(x, d) ==
    IF x.mant = <<>> THEN x
    ELSE roundTiesToEven(x.neg, divBig(Zeroes(2) \o x.mant, d),
                         remBig(Zeroes(2) \o x.mant, d, 1) # 0, x.exp - 32)

\* x * k, for an integer 0 < k <= 32768
multiply(x, k) == roundTiesToEven(x.neg, mulBig(x.mant, k, 1, 0), FALSE, x.exp)

\* x + y
add(x, y) ==
    IF x.mant = <<>> THEN y
    ELSE IF y.mant = <<>> THEN x
    ELSE LET e == IF x.exp < y.exp THEN x.exp ELSE y.exp
             a == shiftLeft(x.mant, x.exp - e)
             b == shiftLeft(y.mant, y.exp - e)
         IN  IF x.neg = y.neg
             THEN roundTiesToEven(x.neg, addBig(a, b, 1, 0), FALSE, e)
             ELSE IF lessBig(a, b)
             THEN roundTiesToEven(y.neg, stripZeros(subBig(b, a, 1, 0)), FALSE, e)
             ELSE roundTiesToEven(x.neg, stripZeros(subBig(a, b, 1, 0)), FALSE, e)

\* the integer part of |x| * k, for |x| * k below 2^31
floorTimes(x, k) ==
    LET a == IF x.exp >= 0 THEN shiftLeft(mulBig(x.mant, k, 1, 0), x.exp)
             ELSE shiftRight(mulBig(x.mant, k, 1, 0), -x.exp)
    IN  limb(a, 1) + Limb * limb(a, 2)

\* mutant: the digits after the first decimal are cut off
toFixed1_truncate(x) == IF x.neg THEN -floorTimes(x, 10) ELSE floorTimes(x, 10)

\* parseFloat(x.toFixed(1)) as a number of tenths: toFixed takes the n for
\* which n / 10 is nearest to |x|, the larger n when two are equally near
toFixed1(x) ==
    IF x.neg THEN -((floorTimes(x, 20) + 1) \div 2)
    ELSE (floorTimes(x, 20) + 1) \div 2

\* mutant: only the games the player won are counted
getPlayerStats_onlyWon(h, playerName) ==
    LET won(game) == game.winner.name = Present(playerName)
        playerGames == SelectSeq(h, won)
    IN  IF Len(playerGames) = 0
        THEN StatOutcome(h, TRUE, Absent, FALSE)
        ELSE LET totalGames == Len(playerGames)
                 allScores == ArrayOf([k \in 1..totalGames |->
                                  reduceSum(playerGames[k].scores[
                                      indexOf(playerGames[k].players, playerName) + 1])])
             IN  StatOutcome(h, TRUE,
                             Present([playerName |-> playerName,
                                      totalGames |-> totalGames,
                                      wins |-> totalGames,
                                      losses |-> 0,
                                      winRate |-> toFixed1(multiply(divide(ToNumber(totalGames), totalGames), 100)),
                                      avgScore |-> toFixed1(divide(ToNumber(reduceAdd(allScores)), totalGames)),
                                      bestScore |-> mathMin(allScores),
                                      worstScore |-> mathMax(allScores)]),
                             FALSE)

\* Statistics.getPlayerStats: value Absent is null; winRate and avgScore are
\* numbers of tenths.  A record without a score row for the player makes
\* .reduce throw a TypeError.
getPlayerStats(h, playerName) ==
    LET played(game) == includes(game.players, playerName)
        playerGames == SelectSeq(h, played)
    IN  IF Len(playerGames) = 0
        THEN StatOutcome(h, TRUE, Absent, FALSE)
        ELSE IF \E k \in 1..Len(playerGames) :
                    indexOf(playerGames[k].players, playerName)
                        >= Len(playerGames[k].scores)
        THEN StatOutcome(h, FALSE, Absent, FALSE)
        ELSE LET wins == Cardinality({ k \in 1..Len(playerGames) :
                                          playerGames[k].winner.name = Present(playerName) })
                 totalGames == Len(playerGames)
                 allScores == ArrayOf([k \in 1..totalGames |->
                                  reduceSum(playerGames[k].scores[
                                      indexOf(playerGames[k].players, playerName) + 1])])
             IN  StatOutcome(h, TRUE,
                             Present([playerName |-> playerName,
                                      totalGames |-> totalGames,
                                      wins |-> wins,
                                      losses |-> totalGames - wins,
                                      winRate |-> toFixed1(multiply(divide(ToNumber(wins), totalGames), 100)),
                                      avgScore |-> toFixed1(divide(ToNumber(reduceAdd(allScores)), totalGames)),
                                      bestScore |-> mathMin(allScores),
                                      worstScore |-> mathMax(allScores)]),
                             FALSE)

\* String.prototype.charCodeAt for the characters names are made of
charCodeAt(c) ==
    CASE c = " " -> 32
      [] c = "a" -> 97
      [] c = "b" -> 98
      [] c = "c" -> 99
      [] c = "d" -> 100
      [] c = "e" -> 101

\* s < t for strings: by code unit, a proper prefix first
RECURSIVE lessThan(_, _)
lessThan(s, t) ==
    IF t = <<>> THEN FALSE
    ELSE IF s = <<>> THEN TRUE
    ELSE IF charCodeAt(s[1]) # charCodeAt(t[1])
    THEN charCodeAt(s[1]) < charCodeAt(t[1])
    ELSE lessThan(Tail(s), Tail(t))

\* Array.prototype.sort() of an array of distinct strings: the string at
\* position j is the one that has j - 1 of the others before it
sort(names) ==
    ArrayOf([j \in 1..Len(names) |->
                names[CHOOSE i \in 1..Len(names) :
                         Cardinality({ l \in 1..Len(names) :
                                          lessThan(names[l], names[i]) }) = j - 1]])

\* the Set after this.history.forEach(game => game.players.forEach(player =>
\* players.add(player))): the names in the order in which they were first
\* added, game by game and seat by seat
playersOf(h) ==
    LET places == UNION { { <<k, i>> : i \in 1..Len(h[k].players) } : k \in 1..Len(h) }
        earlier(p, q) == p[1] < q[1] \/ (p[1] = q[1] /\ p[2] < q[2])
        name(p) == h[p[1]].players[p[2]]
        first == { p \in places :
                      \A q \in places : earlier(q, p) => name(q) # name(p) }
    IN  ArrayOf([j \in 1..Cardinality(first) |->
                    name(CHOOSE p \in first :
                             Cardinality({ q \in first : earlier(q, p) }) = j - 1)])

\* mutant: the names are returned in the order they were met
getAllPlayers_unsorted(h) == playersOf(h)

\* Statistics.getAllPlayers
getAllPlayers(h) == sort(playersOf(h))

\* playerStats.reduce((best, current) =>
\*     current.winRate > best.winRate ? current : best), playerStats not empty
reduceBest(playerStats) ==
    playerStats[CHOOSE i \in 1..Len(playerStats) :
                   /\ \A j \in 1..Len(playerStats) :
                         playerStats[j].winRate <= playerStats[i].winRate
                   /\ \A j \in 1..i - 1 :
                         playerStats[j].winRate < playerStats[i].winRate]

\* the sum of the scores of a game over all rows
RECURSIVE gameTotal(_)
gameTotal(sc) == IF sc = <<>> THEN 0 ELSE reduceSum(sc[1]) + gameTotal(Tail(sc))

\* The values that the accumulator of avgGameScores.reduce((a, b) => a + b, a)
\* takes over games lo..hi in order, each game adding gameTotal /
\* players.length; every game has a player.  The range is walked half by
\* half, the second half starting from the last value of the first.
RECURSIVE accumulators(_, _, _, _)
accumulators(h, a, lo, hi) ==
    IF lo = hi
    THEN <<add(a, divide(ToNumber(gameTotal(h[lo].scores)), Len(h[lo].players)))>>
    ELSE LET first == accumulators(h, a, lo, (lo + hi) \div 2)
         IN  first \o accumulators(h, first[Len(first)], (lo + hi) \div 2 + 1, hi)

\* avgGameScores.reduce((a, b) => a + b, 0) of a log with at least one game
sumOfAverages(h) == accumulators(h, ToNumber(0), 1, Len(h))[Len(h)]

\* Statistics.getOverallStats: value Absent is null; bestWinRate and
\* avgGameScore are numbers of tenths.  It throws when getPlayerStats throws
\* and when no record has a player (reduce of an empty array); a record
\* without players makes avgGameScore NaN or Infinity.
getOverallStats(h) ==
    IF Len(h) = 0
    THEN StatOutcome(h, TRUE, Absent, FALSE)
    ELSE LET allPlayers == getAllPlayers(h)
             calls == ArrayOf([i \in 1..Len(allPlayers) |->
                                  getPlayerStats(h, allPlayers[i])])
         IN  IF \E i \in 1..Len(calls) : ~calls[i].ok
             THEN StatOutcome(h, FALSE, Absent, FALSE)
             ELSE IF Len(allPlayers) = 0
             THEN StatOutcome(h, FALSE, Absent, FALSE)
             ELSE LET playerStats == ArrayOf([i \in 1..Len(calls) |->
                                                 calls[i].value[1]])
                      bestPlayer == reduceBest(playerStats)
                      byZero == { k \in 1..Len(h) : Len(h[k].players) = 0 }
                      overallAvgScore ==
                          IF \/ \E k \in byZero : gameTotal(h[k].scores) = 0
                             \/ \E k, l \in byZero :
                                   gameTotal(h[k].scores) < 0 /\ gameTotal(h[l].scores) > 0
                          THEN "NaN"
                          ELSE IF \E k \in byZero : gameTotal(h[k].scores) > 0
                          THEN "Infinity"
                          ELSE IF \E k \in byZero : gameTotal(h[k].scores) < 0
                          THEN "-Infinity"
                          ELSE toFixed1(divide(sumOfAverages(h), Len(h)))
                  IN  StatOutcome(h, TRUE,
                                  Present([totalGames |-> Len(h),
                                           uniquePlayers |-> Len(allPlayers),
                                           bestPlayer |-> bestPlayer.playerName,
                                           bestWinRate |-> bestPlayer.winRate,
                                           avgGameScore |-> overallAvgScore]),
                                  FALSE)

(***************************************************************************)
(* The state and its transitions                                           *)
(***************************************************************************)
Game == [players |-> players, scores |-> scores, currentRound |-> currentRound]

\* Storage.save / Storage.clear: `w` is whether localStorage accepts the call
\* (setItem throws when the quota is exceeded; the exception is caught).
StorageAfter(o, w) ==
    IF o.clear /\ w THEN Absent
    ELSE IF o.save /\ w THEN Present(saveState(o.g))
    ELSE stored

\* The records of the history after a call on the game: a record that shares
\* the game's arrays sees the in-place writes, and stops sharing when the
\* game is given fresh arrays.
HistoryAfter(h, o) ==
    [k \in 1..Len(h) |->
        IF ~h[k].shared THEN h[k]
        ELSE IF o.fresh THEN [h[k] EXCEPT !.shared = FALSE]
        ELSE [h[k] EXCEPT !.players = o.g.players, !.scores = o.g.scores]]

\* mutant: Storage.save without its try/catch
Storage_save_noCatch(w) == [ok |-> w, value |-> "true"]

\* Storage.save, Storage.clear and Statistics.saveHistory as their callers see
\* them: the exception of a refused localStorage call is caught, so the call
\* completes (ok) whether the write was made (w) or not
Storage_save(w) == [ok |-> TRUE, value |-> Bool(w)]
Storage_clear(w) == [ok |-> TRUE, value |-> Bool(w)]
saveHistory(w) == [ok |-> TRUE, value |-> "undefined"]

\* The outcome of a Game method for its caller: what Storage.save or
\* Storage.clear throws comes out of the method
Persisted(o, w) ==
    IF o.save /\ ~Storage_save(w).ok
    THEN [o EXCEPT !.ok = FALSE, !.value = "undefined"]
    ELSE IF o.clear /\ ~Storage_clear(w).ok
    THEN [o EXCEPT !.ok = FALSE, !.value = "undefined"]
    ELSE o

\* The outcome of a Statistics method for its caller
StatPersisted(o, w) ==
    IF o.save /\ ~saveHistory(w).ok THEN [o EXCEPT !.ok = FALSE] ELSE o

\* A call of a Game method with outcome o
Call(op, o, w) ==
    /\ players' = o.g.players
    /\ scores' = o.g.scores
    /\ currentRound' = o.g.currentRound
    /\ stored' = StorageAfter(o, w)
    /\ history' = HistoryAfter(history, o)
    /\ ret' = [op |-> op, ok |-> Persisted(o, w).ok, value |-> Persisted(o, w).value]
    /\ UNCHANGED <<storedHistory, clock, currentView, elements>>

\* saveHistory(): `w` is whether localStorage accepts the write
HistoryStorageAfter(o, w) ==
    IF o.save /\ w THEN Present(toJSON(o.h)) ELSE storedHistory

\* A call of a Statistics method with outcome o
\* made when the clock reads `now`
StatCall(op, o, value, w, now) ==
    /\ history' = o.h
    /\ storedHistory' = HistoryStorageAfter(o, w)
    /\ clock' = now
    /\ ret' = [op |-> op, ok |-> StatPersisted(o, w).ok, value |-> value]
    /\ UNCHANGED <<players, scores, currentRound, stored, currentView, elements>>

(***************************************************************************)
(* Inputs                                                                  *)
(***************************************************************************)
\* what a caller may pass as a player name
NameInputs == { <<"a">>, <<"b">>, <<"c">>, <<" ", "a", " ">>, <<" ">>, <<>> }

\* name lists a caller may pass to startNewGame
RECURSIVE Lists(_, _)
Lists(S, n) ==
    IF n = 0 THEN { <<>> }
    ELSE LET shorter == Lists(S, n - 1)
         IN  shorter \cup { Append(l, x) : l \in { m \in shorter : Len(m) = n - 1 }, x \in S }

StartInputs == Lists({ <<"a">>, <<"b">> }, MaxPlayers)

\* score lists a caller may pass to submitRound: 1, 2, ... by seat (Ramp), all
\* zero, all null; of every length up to one more than the longest roster
Nulls(n) == [i \in 1..n |-> Null]
Ramp(n) == [i \in 1..n |-> Num(i)]
Zeros(n) == [i \in 1..n |-> Num(0)]
ScoreLists == UNION { { Ramp(n), Zeros(n), Nulls(n) } : n \in 0..MaxPlayers + 1 }

\* The page as it is served: #playerList holds no remove button and
\* #scoreInputs no score field (the number of each is what is kept).
Page == [playerList |-> 0, scoreInputs |-> 0]

Init ==
    /\ players = NewGame.players
    /\ scores = NewGame.scores
    /\ currentRound = NewGame.currentRound
    /\ stored = Absent
    /\ history = <<>>
    /\ storedHistory = Absent
    /\ clock = 0
    /\ currentView = "setup"
    /\ elements = Page
    /\ ret = [op |-> "constructor", ok |-> TRUE, value |-> "undefined"]

AddPlayer ==
    \E name \in NameInputs :
        /\ Len(players) < MaxPlayers
        /\ currentRound <= MaxEditRound
        /\ Call("addPlayer", addPlayer(Game, name), TRUE)

RemovePlayer ==
    \E index \in -1..MaxPlayers :
        /\ currentRound <= MaxEditRound
        /\ Call("removePlayer", removePlayer(Game, index), TRUE)

StartNewGame ==
    \E playerNames \in StartInputs \cup { players } :
        Call("startNewGame", startNewGame(Game, playerNames), TRUE)

\* the score lists passed are Ramp(n), of every length
SubmitRound ==
    \E roundScores \in { Ramp(n) : n \in 0..MaxPlayers + 1 } :
        Call("submitRound", submitRound(Game, roundScores), TRUE)

UndoLastRound == Call("undoLastRound", undoLastRound(Game), TRUE)

Reset == Call("reset", reset(Game), TRUE)

\* Game.saveState: Storage.save of the snapshot; nothing is returned
SaveState ==
    Call("saveState", Outcome(Game, TRUE, "undefined", TRUE, FALSE, FALSE), TRUE)

\* Game.loadState on the slot as it is
LoadState == Call("loadState", loadState(Game, stored), TRUE)

Next ==
    \/ AddPlayer
    \/ RemovePlayer
    \/ StartNewGame
    \/ SubmitRound
    \/ UndoLastRound
    \/ Reset
    \/ SaveState
    \/ LoadState

Spec == Init /\ [][Next]_vars

\* the game after k successive calls submitRound(v)
RECURSIVE Submits(_, _, _)
Submits(g, v, k) == IF k = 0 THEN g ELSE submitRound(Submits(g, v, k - 1), v).g

(***************************************************************************)
(* SpecLog: the Statistics engine alone, called as statistics.test.js      *)
(* calls it, with one game state saved again and again so that the log     *)
(* grows past MAX_HISTORY.  Here `clock` is the tick of the wall clock at  *)
(* the last call; saveGame reads it twice, for id and for timestamp.       *)
(***************************************************************************)
\* a completed two-player game, as Game.exportState() gives it
FinishedGame ==
    exportState(Submits(startNewGame(NewGame, << <<"a">>, <<"b">> >>).g,
                        Ramp(2), maxRounds))

\* A record of a history file exported when the clock read `now`
Exported(now) == Entry(gameRecord(FinishedGame, now, now, FALSE), {})

\* Texts handed to importHistory: no JSON, JSON that is no array, an array
\* with a record that has no winner, and this log's own export.
ImportInputs ==
    { Payload("text", <<>>), Payload("object", <<>>),
      Payload("array", << [Exported(0) EXCEPT !.lacks = {"winner"}] >>),
      exportHistory(history) }

\* The two readings of Date.now() in one saveGame call, <<id, timestamp>>.
\* The clock does not run backwards, and may advance between the two.  Only
\* while the log is shorter than MaxBurst does a call fall into the tick of
\* the call before it, or does the clock advance between its two readings.
Readings ==
    { now \in (clock..clock + 1) \X (clock..clock + 2) :
          /\ now[2] \in now[1]..now[1] + 1
          /\ now[2] <= MaxClock
          /\ (now[1] = clock \/ now[2] # now[1]) => Len(history) < MaxBurst }

SaveGame ==
    \E now \in Readings :
        StatCall("saveGame", saveGame(history, FinishedGame, now[1], now[2], FALSE),
                 "record", TRUE, now[2])

\* deleteGame for the id of the oldest record and for an id no record has
DeleteGame ==
    \E gameId \in { history[k].id : k \in { Len(history) } \ {0} } \cup { MaxClock + 1 } :
        StatCall("deleteGame", deleteGame(history, gameId), "undefined", TRUE, clock)

ClearHistory ==
    StatCall("clearHistory", clearHistory(history), "undefined", TRUE, clock)

ImportHistory ==
    \E jsonData \in ImportInputs :
        LET o == importHistory(history, jsonData)
        IN  StatCall("importHistory", o, o.value, TRUE, clock)

\* importHistory of a file with one record, saved elsewhere during the next tick
ImportNewer ==
    /\ clock < MaxClock
    /\ LET o == importHistory(history, Payload("array", << Exported(clock + 1) >>))
       IN  StatCall("importHistory", o, o.value, TRUE, clock + 1)

NextLog ==
    \/ SaveGame
    \/ DeleteGame
    \/ ClearHistory
    \/ ImportHistory
    \/ ImportNewer

SpecLog == Init /\ [][NextLog]_vars

(***************************************************************************)
(* SpecApp: the application (app.js).  Each action is one listener of the  *)
(* page or a load of the page; the listeners are attached to controls of   *)
(* all three sections and none of them asks which section is shown.  An    *)
(* error that a handler catches is shown, an error that escapes from a     *)
(* listener ends it; both leave ok FALSE in ret.  `elements` is what the   *)
(* page holds where the listeners read it: the number of remove buttons    *)
(* in #playerList and the number of score fields in #scoreInputs.          *)
(***************************************************************************)
\* Statistics.loadHistory on the slot of localStorage: what JSON.parse gives
\* for the text saveHistory wrote, [] when nothing is stored
loadHistory(slot) == IF slot = Absent THEN <<>> ELSE slot[1]

\* UI.getScoreInputs(): one field is read per player, a blank field gives
\* null; document.getElementById gives null for a player without a field,
\* and .value on it throws a TypeError
getScoreInputs(g, typed) ==
    IF Len(g.players) > Len(typed)
    THEN [ok |-> FALSE, scores |-> <<>>, allFilled |-> FALSE]
    ELSE LET read == SubSeq(typed, 1, Len(g.players))
         IN  [ok |-> TRUE, scores |-> read,
              allFilled |-> \A i \in 1..Len(read) : read[i] # Null]

\* what the score fields of the page hold at the click: a number in every
\* field, or all of them blank (blank fields only up to round MaxBlankRound)
TypedInputs ==
    { Ramp(elements.scoreInputs) }
    \cup { Nulls(elements.scoreInputs) : x \in { y \in {0} : currentRound <= MaxBlankRound } }

\* UI.updatePlayerList: one remove button per player
updatePlayerList(g, page) == [page EXCEPT !.playerList = Len(g.players)]

\* UI.updateAll on page `page`: ok FALSE when it threw, elements the page
\* after it.  updateScoreTable calls getWinner() and getPlayerTotal(index)
\* for every player; updateScoreInputs then writes no field for a complete
\* game and one field per player otherwise (getScore(index, currentRound)
\* throws a TypeError for a player without a row); updateRoundInfo follows.
updateAll(g, page) ==
    IF ~getWinner(g).ok \/ \E i \in 1..Len(g.players) : ~getPlayerTotal(g, i - 1).ok
    THEN [ok |-> FALSE, elements |-> page]
    ELSE IF isGameComplete(g)
    THEN [ok |-> TRUE, elements |-> [page EXCEPT !.scoreInputs = 0]]
    ELSE IF \E i \in 1..Len(g.players) : i > Len(g.scores)
    THEN [ok |-> FALSE, elements |-> page]
    ELSE [ok |-> TRUE, elements |-> [page EXCEPT !.scoreInputs = Len(g.players)]]

\* UI.updateStatsView, #statsContent being on the page: TRUE when it
\* returned, FALSE when getOverallStats() threw.  The calls of
\* getPlayerStats that follow are calls getOverallStats has made on the same
\* history, and the rest reads fields every record has.
updateStatsView(h) == getOverallStats(h).ok

\* the handler returned before it called the game
Returned(value) == Outcome(Game, FALSE, value, FALSE, FALSE, FALSE)

\* the call on the game returned and a later statement of the listener threw
Caught(o) == [o EXCEPT !.ok = FALSE, !.value = "undefined"]

\* A run of a listener: o the outcome of its call on the game, h the
\* history, view the section shown and page the elements after it
AppCall(op, o, h, view, page, now) ==
    /\ players' = o.g.players
    /\ scores' = o.g.scores
    /\ currentRound' = o.g.currentRound
    /\ stored' = StorageAfter(o, TRUE)
    /\ history' = h
    /\ storedHistory' = IF h = HistoryAfter(history, o) THEN storedHistory
                        ELSE Present(toJSON(h))
    /\ clock' = now
    /\ currentView' = view
    /\ elements' = page
    /\ ret' = [op |-> op, ok |-> o.ok, value |-> o.value]

HandleAddPlayer ==
    /\ Len(players) < MaxPlayers
    /\ Len(scores) <= MaxEditRows
    /\ \E name \in { <<"a">>, <<" ", "b">>, <<>> } :
           LET o == addPlayer(Game, name)
           IN  AppCall("handleAddPlayer", o, HistoryAfter(history, o), currentView,
                       IF o.ok THEN updatePlayerList(o.g, elements) ELSE elements,
                       clock)

\* the index is that of a remove button of #playerList
HandleRemovePlayer ==
    \E index \in 0..elements.playerList - 1 :
        /\ Len(scores) <= MaxEditRows
        /\ LET o == removePlayer(Game, index)
           IN  AppCall("handleRemovePlayer", o, HistoryAfter(history, o), currentView,
                       updatePlayerList(o.g, elements), clock)

HandleStartGame ==
    IF Len(players) < 2
    THEN AppCall("handleStartGame", Returned("error"), history, currentView,
                 elements, clock)
    ELSE LET o == startNewGame(Game, players)
             ui == updateAll(o.g, elements)
         IN  IF ~o.ok
             THEN AppCall("handleStartGame", o, HistoryAfter(history, o),
                          currentView, elements, clock)
             ELSE AppCall("handleStartGame", IF ui.ok THEN o ELSE Caught(o),
                          HistoryAfter(history, o), "game", ui.elements, clock)

\* statistics.saveGame(this.game.exportState()) reads the clock as SaveGame
\* does; when it throws, the reading taken for the id was the last one
HandleSubmitRound ==
    /\ Len(history) < MaxGames
    /\ Len(players) > 0 \/ currentRound <= MaxBlankRound
    /\ IF isGameComplete(Game)
       THEN AppCall("handleSubmitRound", Returned("error"), history, currentView,
                    elements, clock)
       ELSE \E typed \in TypedInputs, confirm \in BOOLEAN :
                LET in == getScoreInputs(Game, typed)
                    filled == [i \in 1..Len(in.scores) |->
                                  IF in.scores[i] = Null THEN Num(0) ELSE in.scores[i]]
                    o == submitRound(Game, filled)
                    h == HistoryAfter(history, o)
                    ui == updateAll(o.g, elements)
                IN  IF ~in.ok
                    THEN AppCall("handleSubmitRound", Returned("error"), history,
                                 currentView, elements, clock)
                    ELSE IF ~in.allFilled /\ ~confirm
                    THEN AppCall("handleSubmitRound", Returned("declined"), history,
                                 currentView, elements, clock)
                    ELSE IF ~o.ok
                    THEN AppCall("handleSubmitRound", o, h, currentView, elements, clock)
                    ELSE IF ~ui.ok
                    THEN AppCall("handleSubmitRound", Caught(o), h, currentView,
                                 ui.elements, clock)
                    ELSE IF o.value = "true"
                    THEN \E now \in { n \in Readings : n[2] <= 2 * MaxGames } :
                             LET saved == saveGame(h, exportState(o.g), now[1], now[2], TRUE)
                             IN  IF saved.ok
                                 THEN AppCall("handleSubmitRound", o, saved.h,
                                              currentView, ui.elements, now[2])
                                 ELSE AppCall("handleSubmitRound", Caught(o), h,
                                              currentView, ui.elements, now[1])
                    ELSE AppCall("handleSubmitRound", o, h, currentView, ui.elements,
                                 clock)

HandleUndoRound ==
    /\ currentRound = 1 \/ currentRound > maxRounds + 1 - MaxUndo
    /\ IF currentRound = 1
       THEN AppCall("handleUndoRound", Returned("error"), history, currentView,
                    elements, clock)
       ELSE \E confirm \in BOOLEAN :
                LET o == undoLastRound(Game)
                    ui == updateAll(o.g, elements)
                IN  IF ~confirm
                    THEN AppCall("handleUndoRound", Returned("declined"), history,
                                 currentView, elements, clock)
                    ELSE IF ~o.ok
                    THEN AppCall("handleUndoRound", o, HistoryAfter(history, o),
                                 currentView, elements, clock)
                    ELSE AppCall("handleUndoRound", IF ui.ok THEN o ELSE Caught(o),
                                 HistoryAfter(history, o), currentView, ui.elements,
                                 clock)

HandleResetGame ==
    \E confirm \in BOOLEAN :
        IF ~confirm
        THEN AppCall("handleResetGame", Returned("declined"), history, currentView,
                     elements, clock)
        ELSE LET o == reset(Game)
             IN  AppCall("handleResetGame", o, HistoryAfter(history, o), "setup",
                         updatePlayerList(o.g, elements), clock)

\* the listener of view-stats: UI.showStats, which sets currentView and then
\* calls updateStatsView.  The user changes section or loads the page
\* between games and up to round MaxViewRound of a game.
ViewStats ==
    /\ currentRound <= MaxViewRound \/ isGameComplete(Game)
    /\ AppCall("click",
               Outcome(Game, updateStatsView(history), "undefined", FALSE, FALSE, FALSE),
               history, "stats", elements, clock)

\* the listener of back-to-game; nothing catches what updateAll throws
BackToGame ==
    /\ currentRound <= MaxViewRound \/ isGameComplete(Game)
    /\ IF Len(players) > 0
       THEN LET ui == updateAll(Game, elements)
            IN  AppCall("click", Outcome(Game, ui.ok, "undefined", FALSE, FALSE, FALSE),
                        history, "game", ui.elements, clock)
       ELSE AppCall("click", Outcome(Game, TRUE, "undefined", FALSE, FALSE, FALSE),
                    history, "setup", elements, clock)

\* A load of the page: the constructor of FiveCrownsApp on the localStorage
\* as it is, with a new Game, a new Statistics, a new UI and the page as
\* served, then checkForSavedGame; `confirm` is the user's answer to
\* 'Continue your previous game?'
Reload ==
    \E confirm \in BOOLEAN :
        /\ currentRound <= MaxViewRound \/ isGameComplete(Game)
        /\ LET loaded == loadState(NewGame, stored)
            o == IF loaded.value = "true" /\ ~confirm THEN reset(loaded.g) ELSE loaded
            ui == IF loaded.value = "true" /\ confirm
                  THEN updateAll(o.g, Page)
                  ELSE [ok |-> TRUE, elements |-> updatePlayerList(o.g, Page)]
           IN  /\ players' = o.g.players
               /\ scores' = o.g.scores
               /\ currentRound' = o.g.currentRound
               /\ stored' = StorageAfter(o, TRUE)
               /\ history' = loadHistory(storedHistory)
               /\ currentView' = IF loaded.value = "true" /\ confirm THEN "game" ELSE "setup"
               /\ elements' = ui.elements
               /\ ret' = [op |-> "reload", ok |-> ui.ok, value |-> "undefined"]
               /\ UNCHANGED <<storedHistory, clock>>

NextApp ==
    \/ HandleAddPlayer
    \/ HandleRemovePlayer
    \/ HandleStartGame
    \/ HandleSubmitRound
    \/ HandleUndoRound
    \/ HandleResetGame
    \/ ViewStats
    \/ BackToGame
    \/ Reload

SpecApp == Init /\ [][NextApp]_vars

(***************************************************************************)
(* SpecPlay: the Game engine driven through a game: startNewGame, then     *)
(* submitRound and undoLastRound, with score lists that make ties and      *)
(* winners at every seat.  The roster is not edited.                       *)
(***************************************************************************)
\* the roster of n players
Roster(n) == SubSeq(<< <<"a">>, <<"b">>, <<"c">>, <<"d">>, <<"e">> >>, 1, n)

\* n, n - 1, ..., 1 by seat
Down(n) == [i \in 1..n |-> Num(n + 1 - i)]

\* 1 for the first seat and 0 for the others
Tie(n) == [i \in 1..n |-> Num(IF i = 1 THEN 1 ELSE 0)]

\* the score lists submitted in round r by n players: any of four lists up
\* to round MaxVaried, zeros after it
PlayInputs(n, r) ==
    IF r <= MaxVaried THEN { Ramp(n), Down(n), Tie(n), Nulls(n) } ELSE { Zeros(n) }

PlayStart ==
    \E n \in 2..MaxPlayers :
        Call("startNewGame", startNewGame(Game, Roster(n)), TRUE)

PlaySubmit ==
    \E roundScores \in PlayInputs(Len(players), currentRound) :
        Call("submitRound", submitRound(Game, roundScores), TRUE)

PlayUndo == Call("undoLastRound", undoLastRound(Game), TRUE)

NextPlay ==
    \/ PlayStart
    \/ PlaySubmit
    \/ PlayUndo

SpecPlay == Init /\ [][NextPlay]_vars

(***************************************************************************)
(* SpecRows: games played from startNewGame with scores only, no round     *)
(* being submitted with null cells.                                        *)
(***************************************************************************)
\* the score lists of PlayInputs that hold numbers
RowsSubmit ==
    \E roundScores \in PlayInputs(Len(players), currentRound) \ { Nulls(Len(players)) } :
        Call("submitRound", submitRound(Game, roundScores), TRUE)

NextRows ==
    \/ PlayStart
    \/ RowsSubmit
    \/ PlayUndo

SpecRows == Init /\ [][NextRows]_vars

(***************************************************************************)
(* SpecFile: a game in play, as in SpecPlay, that is also loaded from game *)
(* files: its own export, the export of another game, a file without the   *)
(* game key and a text that is no JSON.                                    *)
(***************************************************************************)
\* a game of two after its first round, on another device
OtherGame == submitRound(startNewGame(NewGame, Roster(2)).g, Ramp(2)).g

\* importFromJSON of the game's own export, of the export of another game,
\* of a file without the game key and of a text that is no JSON
FileImport ==
    \E jsonData \in { exportToJSON(Game, clock),
                      exportToJSON(OtherGame, clock),
                      GameFile("object", clock, Absent),
                      GameFile("text", clock, Absent) } :
        Call("importFromJSON", importFromJSON(Game, jsonData), TRUE)

NextFile ==
    \/ PlayStart
    \/ PlaySubmit
    \/ PlayUndo
    \/ FileImport

SpecFile == Init /\ [][NextFile]_vars

(***************************************************************************)
(* SpecMerge: the Statistics engine with short logs, fed from history      *)
(* files written elsewhere, whose records may carry any timestamp, also    *)
(* one later than this clock reads.  saveGame reads the clock as SaveGame  *)
(* of SpecLog does.                                                        *)
(***************************************************************************)
MergeSaveGame ==
    \E now \in Readings :
        /\ clock < MaxMerge
        /\ StatCall("saveGame",
                    saveGame(history, FinishedGame, now[1], now[2], FALSE),
                    "record", TRUE, now[2])

\* files with one record, of any tick up to one past the last tick of a
\* run, and the log's own export
MergeImportHistory ==
    \E jsonData \in { Payload("array", << Exported(t) >>) : t \in 0..MaxMerge + 2 }
                        \cup { exportHistory(history) } :
        LET o == importHistory(history, jsonData)
        IN  StatCall("importHistory", o, o.value, TRUE, clock)

MergeDeleteGame ==
    \E gameId \in 0..MaxMerge + 2 :
        StatCall("deleteGame", deleteGame(history, gameId), "undefined", TRUE, clock)

NextMerge ==
    \/ MergeSaveGame
    \/ MergeImportHistory
    \/ MergeDeleteGame

SpecMerge == Init /\ [][NextMerge]_vars

(***************************************************************************)
(* SpecAhead: the Statistics engine saving games until the log is full,    *)
(* after the import of a history file written on a device whose clock is   *)
(* ahead of this one.  saveGame is the SaveGame of SpecLog.                *)
(***************************************************************************)
\* a file with one record, stamped one tick past the last reading of a run
AheadImportHistory ==
    LET o == importHistory(history, Payload("array", << Exported(MaxClock + 1) >>))
    IN  StatCall("importHistory", o, o.value, TRUE, clock)

NextAhead ==
    \/ SaveGame
    \/ AheadImportHistory

SpecAhead == Init /\ [][NextAhead]_vars

(***************************************************************************)
(* SpecQuota: the Game and the Statistics engine used together while       *)
(* localStorage may refuse any write (quota exceeded, storage disabled).   *)
(* The first rounds of a game of two are played with the scores 1, 2;      *)
(* saveGame is handed the finished game of SpecLog and reads the clock as  *)
(* SaveGame of SpecLog does.                                               *)
(***************************************************************************)
QuotaStart ==
    \E w \in BOOLEAN, n \in 1..2 :
        Call("startNewGame", startNewGame(Game, Roster(n)), w)

QuotaSubmit ==
    \E w \in BOOLEAN, n \in { Len(players), 1 } :
        /\ currentRound <= MaxQuotaRound
        /\ Call("submitRound", submitRound(Game, Ramp(n)), w)

QuotaUndo == \E w \in BOOLEAN : Call("undoLastRound", undoLastRound(Game), w)

\* Game.reset: Storage.clear, whose removeItem may be refused as well
QuotaReset == \E w \in BOOLEAN : Call("reset", reset(Game), w)

QuotaSaveGame ==
    \E w \in BOOLEAN, now \in Readings :
        /\ clock < MaxSaves
        /\ StatCall("saveGame",
                    saveGame(history, FinishedGame, now[1], now[2], FALSE),
                    "record", w, now[2])

QuotaDeleteGame ==
    \E w \in BOOLEAN, gameId \in 0..MaxSaves :
        StatCall("deleteGame", deleteGame(history, gameId), "undefined", w, clock)

QuotaClearHistory ==
    \E w \in BOOLEAN :
        StatCall("clearHistory", clearHistory(history), "undefined", w, clock)

\* texts handed to importHistory: no JSON, and a file with one record of tick 0
QuotaImports == { Payload("text", <<>>), Payload("array", << Exported(0) >>) }

QuotaImportHistory ==
    \E w \in BOOLEAN, jsonData \in QuotaImports :
        LET o == importHistory(history, jsonData)
        IN  StatCall("importHistory", o, o.value, w, clock)

NextQuota ==
    \/ QuotaStart
    \/ QuotaSubmit
    \/ QuotaUndo
    \/ QuotaReset
    \/ QuotaSaveGame
    \/ QuotaDeleteGame
    \/ QuotaClearHistory
    \/ QuotaImportHistory

SpecQuota == Init /\ [][NextQuota]_vars

(***************************************************************************)
(* SpecStats: the Statistics engine fed with completed games of different  *)
(* rosters and winners, one tick apart, and asked for a player's figures.  *)
(* saveGame reads the clock twice; only while the log is shorter than      *)
(* MaxBurst does the clock advance between the two readings.               *)
(***************************************************************************)
\* the game of `names` in which every round was scored v, as exportState()
\* gives it
PlayedGame(names, v) ==
    exportState(Submits(startNewGame(NewGame, names).g, v, maxRounds))

\* games handed to saveGame: "a" beats "b", "b" beats "a", a game of three
\* that all end level, and "c" beats "ab"
StatGames ==
    { PlayedGame(<< <<"a">>, <<"b">> >>, Ramp(2)),
      PlayedGame(<< <<"a">>, <<"b">> >>, Down(2)),
      PlayedGame(<< <<"a">>, <<"b">>, <<"c">> >>, Zeros(3)),
      PlayedGame(<< <<"c">>, <<"a", "b">> >>, Ramp(2)) }

\* names asked for: the players, and one who never played
StatNames == { <<"a">>, <<"b">>, <<"c">>, <<"a", "b">>, <<"d">> }

\* saveGame reads the clock as SaveGame of SpecLog does
StatsSaveGame ==
    \E gameState \in StatGames :
        /\ Len(history) < MaxStatGames
        /\ \E now \in { n \in Readings : n[2] <= MaxStatClock } :
               StatCall("saveGame",
                        saveGame(history, gameState, now[1], now[2], FALSE),
                        "record", TRUE, now[2])

\* deleteGame for the ids records have, and for one no record has
StatsDeleteGame ==
    \E gameId \in 0..MaxStatClock + 1 :
        StatCall("deleteGame", deleteGame(history, gameId), "undefined", TRUE, clock)

StatsGetPlayerStats ==
    \E playerName \in StatNames :
        LET o == getPlayerStats(history, playerName)
        IN  StatCall("getPlayerStats", o, [name |-> playerName, stats |-> o.value],
                     TRUE, clock)

StatsGetOverallStats ==
    LET o == getOverallStats(history)
    IN  StatCall("getOverallStats", o, [name |-> <<>>, stats |-> o.value],
                 TRUE, clock)

NextStats ==
    \/ StatsSaveGame
    \/ StatsDeleteGame
    \/ StatsGetPlayerStats
    \/ StatsGetOverallStats

SpecStats == Init /\ [][NextStats]_vars

(***************************************************************************)
(* Properties of the Game engine, checked under Spec                       *)
(***************************************************************************)
RowsOk(sc) == \A i \in 1..Len(sc) : Len(sc[i]) = maxRounds
Rectangular == Len(scores) = Len(players) /\ RowsOk(scores)

\* score lists of the roster's length
Matching == { Ramp(Len(players)), Zeros(Len(players)), Nulls(Len(players)) }

\* C1 as stated: in every reachable state scores.length = players.length and
\* every row of scores has exactly maxRounds cells.
C1_RectangularAlways == Rectangular

\* C1 amended: every row of scores always has exactly maxRounds cells; a
\* successful startNewGame makes scores.length = players.length; submitRound,
\* undoLastRound and reset keep that equality; addPlayer and removePlayer
\* leave scores as it is (so the equality fails in setup and after an edit).
C1_RectangularByOperation ==
    [][ /\ RowsOk(scores')
        /\ (ret'.op = "startNewGame" /\ ret'.ok => Rectangular')
        /\ (ret'.op \in {"submitRound", "undoLastRound", "reset"} /\ Rectangular
               => Rectangular')
        /\ (ret'.op \in {"addPlayer", "removePlayer"} => scores' = scores)
      ]_vars

C1_Witness ==
    /\ ret.op = "undoLastRound" /\ ret.ok
    /\ Len(players) = 3 /\ Rectangular /\ currentRound = 2

\* C2: from a game just started, the k-th of 11 successive submitRound calls
\* with score lists of the roster's length succeeds, returns false and leaves
\* isGameComplete() false for k = 1..10, and returns true and leaves
\* isGameComplete() true for k = 11; a successful submitRound returns
\* isGameComplete().
C2_CompleteAfterEleventh ==
    /\ (ret.op = "startNewGame" /\ ret.ok) =>
          \A v \in Matching : \A k \in 1..maxRounds :
              LET o == submitRound(Submits(Game, v, k - 1), v)
              IN  /\ o.ok
                  /\ o.value = Bool(k = maxRounds)
                  /\ isGameComplete(o.g) = (k = maxRounds)
    /\ (ret.op = "submitRound" /\ ret.ok) =>
          ret.value = Bool(isGameComplete(Game))

C2_Witness ==
    /\ ret.op = "submitRound" /\ ret.ok /\ ret.value = "true"
    /\ isGameComplete(Game) /\ Len(players) >= 2 /\ Rectangular

\* C8: submitRound with a score list whose length differs from the roster's
\* throws, writes no score cell, leaves currentRound alone and saves nothing.
C8_ShapeFailureIsAtomic ==
    \A v \in ScoreLists :
        Len(v) # Len(players) =>
            LET o == submitRound(Game, v)
            IN  /\ ~o.ok
                /\ o.g = Game
                /\ ~o.save
                /\ \A w \in BOOLEAN : StorageAfter(o, w) = stored

\* a shape failure has happened: the call threw on a game that is not
\* complete and whose matrix has a row for every player
C8_Witness ==
    /\ ret.op = "submitRound" /\ ~ret.ok
    /\ ~isGameComplete(Game)
    /\ Len(players) >= 2 /\ Rectangular /\ currentRound > 1

\* C9: submitRound on a completed game throws and leaves players, scores and
\* currentRound unchanged; no row ever has a cell beyond column 11 and
\* currentRound never exceeds maxRounds + 1.
C9_CompleteGameRejectsSubmit ==
    /\ currentRound <= maxRounds + 1
    /\ RowsOk(scores)
    /\ isGameComplete(Game) =>
          \A v \in ScoreLists :
              LET o == submitRound(Game, v)
              IN  ~o.ok /\ o.g = Game /\ ~o.save

C9_Witness ==
    /\ ret.op = "submitRound" /\ ~ret.ok
    /\ isGameComplete(Game) /\ Len(players) >= 2 /\ Rectangular

\* C10: a successful submitRound(roundScores) at round r writes roundScores[i]
\* into scores[i][r-1] for every player i, adds exactly 1 to currentRound and
\* leaves the roster and every other score cell unchanged.
C10_SubmitWritesOneColumn ==
    \A v \in ScoreLists :
        LET o == submitRound(Game, v)
        IN  o.ok =>
              /\ o.g.players = players
              /\ o.g.currentRound = currentRound + 1
              /\ Len(o.g.scores) = Len(scores)
              /\ \A i \in 1..Len(scores) : \A c \in 1..maxRounds :
                    o.g.scores[i][c] =
                        IF c = currentRound /\ i <= Len(players)
                        THEN v[i] ELSE scores[i][c]

C10_Witness ==
    /\ ret.op = "submitRound" /\ ret.ok
    /\ Len(players) = 3 /\ Rectangular /\ currentRound = 3
    /\ scores[3][2] = Num(3) /\ scores[1][2] = Num(1) /\ scores[3][3] = Null

\* C11: currentRound is an integer from 1 to maxRounds + 1
C11_RoundInRange == currentRound \in 1..maxRounds + 1

\* the upper end: the eleventh round of a three-player game was submitted
C11_Witness ==
    /\ ret.op = "submitRound" /\ ret.ok
    /\ currentRound = maxRounds + 1 /\ Len(players) = 3

\* C12: undoLastRound at round r > 1 returns with currentRound = r - 1 and
\* cell r - 1 of every player's row null; the roster and every other cell
\* are as before.
C12_UndoClearsOneColumn ==
    currentRound > 1 =>
        LET o == undoLastRound(Game)
        IN  /\ o.ok
            /\ o.g.players = players
            /\ o.g.currentRound = currentRound - 1
            /\ Len(o.g.scores) = Len(scores)
            /\ \A i \in 1..Len(players) :
                  i <= Len(o.g.scores) /\ o.g.scores[i][currentRound - 1] = Null
            /\ \A i \in 1..Len(scores) : \A c \in 1..maxRounds :
                  o.g.scores[i][c] =
                      IF c = currentRound - 1 /\ i <= Len(players)
                      THEN Null ELSE scores[i][c]

\* C13: undoLastRound at round 1 throws; players, scores, currentRound and
\* the stored snapshot stay as they are.
C13_UndoAtFirstRoundFails ==
    currentRound = 1 =>
        LET o == undoLastRound(Game)
        IN  /\ ~o.ok
            /\ o.g = Game
            /\ \A w \in BOOLEAN : StorageAfter(o, w) = stored

\* the call was made on a started game with a stored snapshot
C13_Witness ==
    /\ ret.op = "undoLastRound" /\ ~ret.ok
    /\ currentRound = 1 /\ Len(players) >= 2 /\ Rectangular
    /\ stored # Absent

\* C19: whatever the state, startNewGame of at least two names succeeds and
\* gives a game whose roster is those names in order, whose scores are one row
\* of 11 nulls for each name, and whose currentRound is 1.
C19_StartGivesFreshGame ==
    \A playerNames \in StartInputs :
        Len(playerNames) >= 2 =>
            LET o == startNewGame(Game, playerNames)
            IN  /\ o.ok
                /\ o.g.players = playerNames
                /\ Len(o.g.scores) = Len(playerNames)
                /\ \A i \in 1..Len(o.g.scores) :
                      /\ Len(o.g.scores[i]) = 11
                      /\ \A r \in 1..11 : o.g.scores[i][r] = Null
                /\ o.g.currentRound = 1

\* startNewGame(["b", "a"]) has just returned
C19_Witness ==
    /\ ret.op = "startNewGame" /\ ret.ok
    /\ players = << <<"b">>, <<"a">> >>
    /\ Len(scores) = 2
    /\ \A i \in 1..2 : \A r \in 1..11 : scores[i][r] = Null
    /\ currentRound = 1

\* C20: in every reachable state the player names are pairwise distinct,
\* trimmed and non-empty.
C20_NamesUniqueTrimmedNonEmpty ==
    \A i \in 1..Len(players) :
        /\ players[i] # <<>>
        /\ trim(players[i]) = players[i]
        /\ \A j \in 1..Len(players) : j # i => players[j] # players[i]

\* n blanks
Blanks(n) == [i \in 1..n |-> " "]

\* t is s without its leading and trailing blanks
IsTrimOf(t, s) ==
    /\ \E a, b \in 0..Len(s) : s = Blanks(a) \o t \o Blanks(b)
    /\ t # <<>> => t[1] # " " /\ t[Len(t)] # " "

\* the name s without its leading and trailing blanks
Trimmed(s) ==
    CHOOSE t \in { SubSeq(s, i, j) : i \in 1..Len(s) + 1, j \in 0..Len(s) } :
        IsTrimOf(t, s)

\* C21: addPlayer(name) fails and leaves the game as it is when the trimmed
\* name is empty or equals a name of the roster; otherwise it succeeds and the
\* roster is the old roster followed by the trimmed name.
C21_AddPlayerValidates ==
    \A name \in NameInputs :
        LET o == addPlayer(Game, name)
            t == Trimmed(name)
        IN  IF t = <<>> \/ \E i \in 1..Len(players) : players[i] = t
            THEN ~o.ok /\ o.g = Game
            ELSE /\ o.ok
                 /\ o.g.players = players \o <<t>>
                 /\ o.g.scores = scores
                 /\ o.g.currentRound = currentRound

\* addPlayer has just refused a name while the roster holds "a" and "b"
C21_Witness ==
    /\ ret.op = "addPlayer" /\ ~ret.ok
    /\ players = << <<"a">>, <<"b">> >>
    /\ ~addPlayer(Game, <<" ", "a", " ">>).ok
    /\ addPlayer(Game, <<"c">>).g.players = << <<"a">>, <<"b">>, <<"c">> >>

\* C22: startNewGame of fewer than 2 names fails and leaves players, scores,
\* currentRound and the stored snapshot as they were.
C22_StartNeedsTwoNames ==
    \A playerNames \in StartInputs :
        Len(playerNames) < 2 =>
            LET o == startNewGame(Game, playerNames)
            IN  /\ ~o.ok
                /\ o.g.players = players
                /\ o.g.scores = scores
                /\ o.g.currentRound = currentRound
                /\ StorageAfter(o, TRUE) = stored

\* startNewGame of too few names has just failed in the third round of a game
C22_Witness ==
    /\ ret.op = "startNewGame" /\ ~ret.ok
    /\ currentRound = 3
    /\ Len(players) = 2
    /\ scores[2][2] = Num(2)
    /\ stored = Present(saveState(Game))

\* C23: removePlayer(index) never fails; with index outside
\* 0..players.length-1 it changes nothing, with an index in range the roster
\* loses the player at that position and the others keep their order.
C23_RemovePlayerByIndex ==
    \A index \in -1..MaxPlayers :
        LET o == removePlayer(Game, index)
        IN  /\ o.ok
            /\ ~(index \in 0..Len(players) - 1) =>
                  o.g = Game /\ StorageAfter(o, TRUE) = stored
            /\ index \in 0..Len(players) - 1 =>
                  /\ Len(o.g.players) = Len(players) - 1
                  /\ \A k \in 1..Len(players) - 1 :
                        o.g.players[k] = IF k <= index THEN players[k]
                                         ELSE players[k + 1]

\* removePlayer has just returned and left "a" and "c" of a roster of three
C23_Witness ==
    /\ ret.op = "removePlayer" /\ ret.ok
    /\ players = << <<"a">>, <<"c">> >>
    /\ removePlayer(Game, 0).g.players = << <<"c">> >>
    /\ removePlayer(Game, 2).g.players = players

\* C25: after every successful call of addPlayer, removePlayer, startNewGame,
\* submitRound or undoLastRound that changed the game, the stored snapshot is
\* the game in memory, and loadState on a new Game restores that game.
C25_SnapshotFollowsGame ==
    [][ /\ ret'.op \in { "addPlayer", "removePlayer", "startNewGame",
                         "submitRound", "undoLastRound" }
        /\ ret'.ok
        /\ <<players, scores, currentRound>>' # <<players, scores, currentRound>>
        => LET after == [players |-> players', scores |-> scores',
                         currentRound |-> currentRound']
           IN  /\ stored' = Present(saveState(after))
               /\ loadState(NewGame, stored').value = "true"
               /\ loadState(NewGame, stored').g = after
      ]_vars

\* C26: reset, in any state, gives the initial empty game (no players, no
\* scores, currentRound 1) and removes the stored snapshot: after it
\* hasSavedGame is false and loadState returns false and changes nothing.
C26_ResetForgetsTheGame ==
    LET o == reset(Game)
        slot == StorageAfter(o, TRUE)
    IN  /\ o.ok
        /\ o.g.players = <<>>
        /\ o.g.scores = <<>>
        /\ o.g.currentRound = 1
        /\ slot = Absent
        /\ ~Storage_hasSavedGame(slot)
        /\ loadState(o.g, slot).value = "false"
        /\ loadState(o.g, slot).g = NewGame

\* reset has just returned
C26_Witness ==
    /\ ret.op = "reset" /\ ret.ok
    /\ players = <<>> /\ scores = <<>> /\ currentRound = 1
    /\ stored = Absent
    /\ loadState(Game, stored).value = "false"

(***************************************************************************)
(* Properties of the completed-game records, checked under SpecApp         *)
(***************************************************************************)
\* a record without the bookkeeping of which arrays it holds
Content(rec) == [rec EXCEPT !.shared = FALSE]

\* records of the game being played: those holding its arrays (a record
\* read back from localStorage at a load of the page holds its own)
RecordsOfLiveGame == { k \in 1..Len(history) : history[k].shared }

\* C3: a record that is in the history keeps its content through every later
\* operation on the game (the history of SpecApp only grows at the front, so
\* a record keeps its distance from the end of the log; a load of the page
\* reads the log back as it was last written).
C3_RecordNeverMutated ==
    [][\A k \in 1..Len(history) :
           LET j == k + Len(history') - Len(history)
           IN  j >= 1 /\ Content(history'[j]) = Content(history[k])]_vars

\* C4: the game being played never has more than one record in the
\* history, whatever was undone and submitted again.
C4_OneRecordPerCompletedGame == Cardinality(RecordsOfLiveGame) <= 1

(***************************************************************************)
(* Properties of the history log, checked under SpecLog (C5: SpecAhead)    *)
(***************************************************************************)
\* how often record r occurs in log h
Occurrences(h, r) == Cardinality({ k \in 1..Len(h) : h[k] = r })

\* the records of log `old` that log `new` has no more
Dropped(old, new) ==
    { old[k] : k \in { i \in 1..Len(old) : Occurrences(new, old[i]) < Occurrences(old, old[i]) } }

\* C5: the log never holds more than MAX_HISTORY records, and an insertion
\* into a full log drops the oldest records: saveGame drops the record at
\* the end of the log and keeps no record older than it; importHistory
\* drops only records that are not newer than any it keeps.
C5_LogWithinCap ==
    [][/\ Len(history') <= MAX_HISTORY
       /\ ret'.op = "saveGame" /\ Len(history) = MAX_HISTORY
              => /\ Tail(history') = SubSeq(history, 1, MAX_HISTORY - 1)
                 /\ \A k \in 2..MAX_HISTORY :
                        history'[k].timestamp >= history[MAX_HISTORY].timestamp
       /\ ret'.op = "importHistory"
              => \A r \in Dropped(history, history') :
                     /\ Len(history') = MAX_HISTORY
                     /\ \A k \in 1..Len(history') : history'[k].timestamp >= r.timestamp]_vars

\* C6: every saveGame puts the saved game first and keeps the records that
\* were there, in their order, as far as MAX_HISTORY allows; so after more
\* than MAX_HISTORY saves the log is the MAX_HISTORY most recent saves, the
\* most recent first.
C6_MostRecentFifty ==
    [][ret'.op = "saveGame"
           => /\ Len(history') = Min(Len(history) + 1, MAX_HISTORY)
              /\ \E id \in clock..clock' :
                     Content(history'[1]) = gameRecord(FinishedGame, id, clock', FALSE)
              /\ \A k \in 2..Len(history') : history'[k] = history[k - 1]
              /\ \A k \in 1..Len(history') - 1 :
                     history'[k].timestamp >= history'[k + 1].timestamp]_vars

\* MAX_HISTORY + 1 saves at ticks 0, 1, ..., MAX_HISTORY on the empty log
C6_Witness ==
    /\ ret.op = "saveGame"
    /\ Len(history) = MAX_HISTORY
    /\ \A k \in 1..MAX_HISTORY : history[k].id = MAX_HISTORY + 1 - k

\* C7: no two records of the history have the same id
C7_IdsUnique ==
    \A i, j \in 1..Len(history) : i # j => history[i].id # history[j].id

\* texts importHistory must refuse: no JSON, JSON that is no array, and files
\* in which one record lacks players, scores or winner, alone or next to a
\* valid record
Refused ==
    { Payload("text", <<>>), Payload("object", <<>>) }
    \cup UNION { { Payload("array", << [Exported(0) EXCEPT !.lacks = {f}] >>),
                   Payload("array", << [Exported(0) EXCEPT !.lacks = {f}],
                                       Exported(MaxClock + 1) >>),
                   Payload("array", << Exported(MaxClock + 1),
                                       [Exported(0) EXCEPT !.lacks = {f}] >>) } :
                 f \in { "players", "scores", "winner" } }

\* C27: importHistory of a text that is no JSON, is no array, or has a record
\* lacking players, scores or winner returns false without throwing and
\* leaves the log in memory and the stored log as they were.
C27_ImportRefusesBadFiles ==
    \A jsonData \in Refused :
        LET o == importHistory(history, jsonData)
        IN  /\ StatPersisted(o, TRUE).ok
            /\ o.value = "false"
            /\ o.h = history
            /\ HistoryStorageAfter(o, TRUE) = storedHistory

\* importHistory has just refused a file while the log held two records
C27_Witness ==
    /\ ret.op = "importHistory" /\ ret.ok /\ ret.value = "false"
    /\ Len(history) = 2
    /\ storedHistory = Present(toJSON(history))

\* files importHistory accepts: this log's own export, an empty file, a file
\* with one record of the next tick, and a file that is not sorted and holds
\* a record of tick 0 and two of later ticks than any of the log
Accepted ==
    { exportHistory(history),
      Payload("array", <<>>),
      Payload("array", << Exported(clock + 1) >>),
      Payload("array", << Exported(0), Exported(MaxClock + 1), Exported(MaxClock + 2) >>) }

\* C28: a successful importHistory gives a log made of the records that were
\* in the log, unchanged, and of the imported records whose id the log did
\* not hold; it is sorted by timestamp, newest first, and holds all of them
\* or, when they are more than MAX_HISTORY, MAX_HISTORY of them, none dropped
\* being newer than one kept.  Imported records with an id of the log are
\* skipped.
C28_ImportMerges ==
    \A jsonData \in Accepted :
        LET o == importHistory(history, jsonData)
            file == [k \in 1..Len(jsonData.games) |-> jsonData.games[k].game]
            News == { k \in 1..Len(file) :
                         \A i \in 1..Len(history) : history[i].id # file[k].id }
            Avail(r) == Occurrences(history, r)
                           + Cardinality({ k \in News : file[k] = r })
            All == { history[i] : i \in 1..Len(history) } \cup { file[k] : k \in News }
        IN  /\ o.ok /\ o.value = "true"
            /\ Len(o.h) = Min(MAX_HISTORY, Len(history) + Cardinality(News))
            /\ \A k \in 1..Len(o.h) : o.h[k] \in All
            /\ \A k \in 1..Len(o.h) - 1 : o.h[k].timestamp >= o.h[k + 1].timestamp
            /\ \A r \in All :
                  /\ Occurrences(o.h, r) <= Avail(r)
                  /\ Occurrences(o.h, r) < Avail(r) =>
                        /\ Len(o.h) = MAX_HISTORY
                        /\ \A k \in 1..Len(o.h) : o.h[k].timestamp >= r.timestamp

\* importHistory has just put the record of a later tick in front of a full
\* log, whose oldest record it dropped
C28_Witness ==
    /\ ret.op = "importHistory" /\ ret.value = "true"
    /\ Len(history) = MAX_HISTORY
    /\ history[1].id = MAX_HISTORY + 1
    /\ history[MAX_HISTORY].id = 2

(***************************************************************************)
(* Properties of a game in play, checked under SpecPlay                    *)
(***************************************************************************)
\* the score lists of the roster's length that SpecPlay knows
PlayLists ==
    { Ramp(Len(players)), Down(Len(players)), Tie(Len(players)),
      Nulls(Len(players)), Zeros(Len(players)) }

LastRound == [i \in 1..Len(players) |-> scores[i][currentRound - 1]]

\* what localStorage holds after the successive calls with outcomes u and s
StoredAfter(u, s) ==
    IF s.save THEN Present(saveState(s.g))
    ELSE IF u.save THEN Present(saveState(u.g))
    ELSE stored

\* C15: at currentRound > 1, undoLastRound followed by submitRound with the
\* scores that the undo removed gives back the same players, scores and
\* currentRound, and the same stored snapshot.
C15_UndoThenResubmit ==
    currentRound > 1 =>
        LET u == undoLastRound(Game)
            s == submitRound(u.g, LastRound)
        IN  /\ u.ok /\ s.ok
            /\ s.g = Game
            /\ StoredAfter(u, s) = stored

\* round 2 of a three-player game is in: 3, 2, 1 by seat, saved
C15_Witness ==
    /\ ret.op = "submitRound" /\ ret.ok
    /\ currentRound = 3 /\ Len(players) = 3
    /\ LastRound = Down(3)
    /\ stored = Present(saveState(Game))

\* getPlayerTotal(j) of the game, j counted from 0
Total(j) == getPlayerTotal(Game, j).value[1]

\* C16: getWinner() returns null exactly when the game is not complete; when
\* it is complete it returns an object whose index is a player position, whose
\* score is that player's total and the minimum of all player totals, whose
\* index is the lowest position with that total, and whose name is
\* players[index].
C16_WinnerRule ==
    LET o == getWinner(Game)
    IN  /\ o.ok
        /\ (o.value = Absent) <=> ~isGameComplete(Game)
        /\ isGameComplete(Game) =>
              LET w == o.value[1]
              IN  /\ w.index \in 0..Len(players) - 1
                  /\ w.score = Num(Total(w.index))
                  /\ \A j \in 0..Len(players) - 1 :
                        /\ Total(j) >= Total(w.index)
                        /\ Total(j) = Total(w.index) => j >= w.index
                  /\ w.name = Present(players[w.index + 1])

\* C17: for every completed game the winner Statistics derives from
\* game.exportState() and stores in the record of saveGame equals
\* game.getWinner(): same name, score and index.
C17_StoredWinnerIsGameWinner ==
    isGameComplete(Game) =>
        LET w == getWinner(Game)
            o == saveGame(history, exportState(Game), clock + 1, clock + 1, TRUE)
        IN  /\ w.ok
            /\ determineWinner(exportState(Game)) = w.value[1]
            /\ o.ok => /\ o.value[1].winner = w.value[1]
                       /\ o.h[1].winner = w.value[1]

\* the columns of a row that hold a number
Scored(row) == { c \in 1..Len(row) : row[c] # Null }

\* the sum of the numbers a row holds in the columns cols
RECURSIVE SumOver(_, _)
SumOver(row, cols) ==
    IF cols = {} THEN 0
    ELSE LET c == CHOOSE x \in cols : TRUE
         IN  row[c][1] + SumOver(row, cols \ {c})

\* C18: getPlayerTotal(i) returns the sum of the non-null cells of row i and
\* changes no state; in a game played by startNewGame, submitRound and
\* undoLastRound that is the sum of the scores of player i in rounds
\* 1..currentRound-1, no later round holding a score.
C18_TotalIsSumOfScoredRounds ==
    \A i \in 0..Len(players) - 1 :
        LET o == getPlayerTotal(Game, i)
            row == scores[i + 1]
        IN  /\ o.ok
            /\ o.g = Game
            /\ ~o.save /\ ~o.clear
            /\ o.value = Present(SumOver(row, Scored(row)))
            /\ Scored(row) \subseteq 1..currentRound - 1
            /\ o.value = Present(SumOver(row, Scored(row) \cap (1..currentRound - 1)))

\* after a round of nulls and a round of numbers the third player's total
\* is the one number of the row
C18_Witness ==
    /\ ret.op = "submitRound" /\ ret.ok
    /\ currentRound = 3
    /\ Len(players) = 3
    /\ scores[3][1] = Null
    /\ scores[3][2] = Num(3)
    /\ getPlayerTotal(Game, 2).value = Present(3)

(***************************************************************************)
(* Persistence, checked under SpecQuota                                    *)
(***************************************************************************)
\* the outcomes the Game method `op` has in this state when every write to
\* storage is accepted
GameOutcomes(op) ==
    CASE op = "startNewGame" -> { startNewGame(Game, Roster(n)) : n \in 1..2 }
      [] op = "submitRound" -> { submitRound(Game, Ramp(n)) : n \in 0..2 }
      [] op = "undoLastRound" -> { undoLastRound(Game) }
      [] OTHER -> {}

\* the same for the Statistics method `op`, with what the method returns
StatOutcomes(op) ==
    CASE op = "saveGame" ->
            { [o |-> saveGame(history, FinishedGame, now[1], now[2], FALSE),
               value |-> "record"] : now \in Readings }
      [] op = "deleteGame" ->
            { [o |-> deleteGame(history, gameId), value |-> "undefined"] :
                  gameId \in 0..MaxSaves }
      [] op = "clearHistory" ->
            { [o |-> clearHistory(history), value |-> "undefined"] }
      [] op = "importHistory" ->
            { [o |-> importHistory(history, jsonData),
               value |-> importHistory(history, jsonData).value] :
                  jsonData \in QuotaImports }
      [] OTHER -> {}

\* C24: a refused write to storage never shows in the outcome of
\* startNewGame, submitRound, undoLastRound, saveGame, deleteGame,
\* clearHistory or importHistory: whether the write is made or not, the game
\* or the log after the call and what the call returns are those of the
\* operation alone, and the call fails only when the operation does.
C24_RefusedWriteIsInvisible ==
    [][ /\ GameOutcomes(ret'.op) # {} =>
              \E o \in GameOutcomes(ret'.op) :
                  /\ players' = o.g.players
                  /\ scores' = o.g.scores
                  /\ currentRound' = o.g.currentRound
                  /\ ret'.ok = o.ok
                  /\ ret'.value = o.value
                  /\ history' = history /\ storedHistory' = storedHistory
        /\ StatOutcomes(ret'.op) # {} =>
              \E c \in StatOutcomes(ret'.op) :
                  /\ history' = c.o.h
                  /\ ret'.ok = c.o.ok
                  /\ ret'.value = c.value
                  /\ players' = players /\ scores' = scores
                  /\ currentRound' = currentRound /\ stored' = stored
      ]_vars

\* submitRound has just completed the second round although its write was
\* refused, and the log holds a record no write has stored
C24_Witness ==
    /\ ret.op = "submitRound" /\ ret.ok /\ ret.value = "false"
    /\ currentRound = 3
    /\ Len(scores) = 2
    /\ scores[2][2] = Num(2)
    /\ stored # Present(saveState(Game))
    /\ Len(history) = 1
    /\ storedHistory = Absent

(***************************************************************************)
(* A player's figures, checked under SpecStats                             *)
(***************************************************************************)
\* the positions of the log whose record has `name` among its players
Containing(name) ==
    { k \in 1..Len(history) :
          \E i \in 1..Len(history[k].players) : history[k].players[i] = name }

\* C29: getPlayerStats(name) returns null exactly when no record has name
\* among its players; otherwise totalGames is the number of records that have,
\* wins the number of those whose winner name is name, and losses the rest,
\* so that wins + losses = totalGames and 0 <= wins <= totalGames.
C29_GamesWinsLosses ==
    \A name \in StatNames :
        LET o == getPlayerStats(history, name)
            Won == { k \in Containing(name) : history[k].winner.name = Present(name) }
        IN  /\ o.ok
            /\ o.h = history
            /\ (o.value = Absent) <=> (Containing(name) = {})
            /\ Containing(name) # {} =>
                  /\ o.value[1].totalGames = Cardinality(Containing(name))
                  /\ o.value[1].wins = Cardinality(Won)
                  /\ o.value[1].losses = Cardinality(Containing(name) \ Won)
                  /\ o.value[1].wins + o.value[1].losses = o.value[1].totalGames
                  /\ o.value[1].wins \in 0..o.value[1].totalGames

\* getPlayerStats("a") has just returned for a log of four games, of which
\* "a" played three and won two
C29_Witness ==
    /\ ret.op = "getPlayerStats"
    /\ ret.value.name = <<"a">>
    /\ Len(history) = 4
    /\ ret.value.stats # Absent
    /\ ret.value.stats[1].totalGames = 3
    /\ ret.value.stats[1].wins = 2
    /\ ret.value.stats[1].losses = 1
    /\ getPlayerStats(history, <<"d">>).value = Absent

\* C30: the win rate getPlayerStats returns is 100 * wins / totalGames rounded
\* to one decimal: no number of tenths is nearer to it; for 2 wins in 4 games
\* it is 50.0.
C30_WinRateToOneDecimal ==
    \A name \in StatNames :
        LET o == getPlayerStats(history, name)
        IN  o.value # Absent =>
                LET wins == o.value[1].wins
                    totalGames == o.value[1].totalGames
                    tenths == o.value[1].winRate
                    off == 1000 * wins - tenths * totalGames
                IN  /\ 2 * off <= totalGames
                    /\ -2 * off <= totalGames
                    /\ wins = 2 /\ totalGames = 4 => tenths = 500

\* getPlayerStats("a") has just returned 50.0 for 2 wins in 4 games
C30_Witness ==
    /\ ret.op = "getPlayerStats"
    /\ ret.value.name = <<"a">>
    /\ ret.value.stats # Absent
    /\ ret.value.stats[1].totalGames = 4
    /\ ret.value.stats[1].wins = 2
    /\ ret.value.stats[1].winRate = 500

\* the names that the records of the log list
Listed == UNION { { history[k].players[i] : i \in 1..Len(history[k].players) } :
                  k \in 1..Len(history) }

\* the characters of names, in the order of the dictionary
Alphabet == <<" ", "a", "b", "c", "d", "e">>

Rank(c) == CHOOSE i \in 1..Len(Alphabet) : Alphabet[i] = c

\* name s comes before name t in a dictionary
Before(s, t) ==
    \E n \in 0..Min(Len(s), Len(t)) :
        /\ SubSeq(s, 1, n) = SubSeq(t, 1, n)
        /\ \/ n = Len(s) /\ n < Len(t)
           \/ n < Len(s) /\ n < Len(t) /\ Rank(s[n + 1]) < Rank(t[n + 1])

\* the win rate getPlayerStats gives for a listed name, in tenths
RateOf(name) == getPlayerStats(history, name).value[1].winRate

\* C31: getOverallStats returns null exactly when the log is empty; otherwise
\* totalGames is the length of the log, uniquePlayers the number of distinct
\* names, and bestPlayer a listed name whose win rate no listed name exceeds
\* and which comes, in the dictionary, before every other name of that rate.
C31_BestPlayer ==
    LET o == getOverallStats(history)
    IN  /\ o.ok
        /\ o.h = history
        /\ (o.value = Absent) <=> (history = <<>>)
        /\ history # <<>> =>
              /\ o.value[1].totalGames = Len(history)
              /\ o.value[1].uniquePlayers = Cardinality(Listed)
              /\ o.value[1].bestPlayer \in Listed
              /\ o.value[1].bestWinRate = RateOf(o.value[1].bestPlayer)
              /\ \A name \in Listed :
                    LET rate == RateOf(name)
                    IN  /\ rate <= o.value[1].bestWinRate
                        /\ rate = o.value[1].bestWinRate
                              /\ name # o.value[1].bestPlayer
                              => Before(o.value[1].bestPlayer, name)

\* getOverallStats has just named "a" the best player of a log in which "c",
\* met first, has won its one game as well, and "ab" and "b" have lost theirs
C31_Witness ==
    /\ ret.op = "getOverallStats"
    /\ Len(history) = 2
    /\ history[1].players = << <<"c">>, <<"a", "b">> >>
    /\ history[2].players = << <<"a">>, <<"b">> >>
    /\ RateOf(<<"a">>) = 1000 /\ RateOf(<<"c">>) = 1000
    /\ ret.value.stats[1].bestPlayer = <<"a">>
    /\ ret.value.stats[1].uniquePlayers = 4

(***************************************************************************)
(* Game files, checked under SpecFile                                      *)
(***************************************************************************)
\* C32: importFromJSON of a file without the game key throws and leaves
\* players, scores and currentRound of the live game as they were.
C32_ImportWithoutGameKeyFails ==
    LET o == importFromJSON(Game, GameFile("object", clock, Absent))
    IN  /\ ~o.ok
        /\ o.g.players = players
        /\ o.g.scores = scores
        /\ o.g.currentRound = currentRound

\* importFromJSON has just failed in the third round of a game of three
C32_Witness ==
    /\ ret.op = "importFromJSON" /\ ~ret.ok
    /\ currentRound = 3
    /\ Len(players) = 3
    /\ scores[3][2] # Null
    /\ ~importFromJSON(Game, GameFile("object", clock, Absent)).ok

(***************************************************************************)
(* Logs merged from files, checked under SpecMerge                         *)
(***************************************************************************)
\* C34: after any sequence of saveGame, importHistory and deleteGame the log
\* is ordered most recent first: the timestamps do not increase from the
\* first record to the last.
C34_LogNewestFirst ==
    \A k \in 1..Len(history) - 1 : history[k].timestamp >= history[k + 1].timestamp

\* C40: importHistory of the log's own exportHistory() returns true and
\* leaves the log as it was: the same records in the same order.
C40_OwnExportChangesNothing ==
    LET o == importHistory(history, exportHistory(history))
    IN  /\ o.ok
        /\ o.value = "true"
        /\ o.h = history

------------------------------------------------------------------------------
\* Deleting from the log, checked under SpecLog.

WithId(h, gameId) == { k \in 1..Len(h) : h[k].id = gameId }

Without(h, k) == [ j \in 1..Len(h) - 1 |-> IF j < k THEN h[j] ELSE h[j + 1] ]

\* C39: a step of deleteGame(id) removes exactly one record when the log has
\* a record with that id, the other records staying as they were and in
\* their order, and leaves the log as it was when no record has that id.
C39_DeleteRemovesOne ==
    [][ret'.op = "deleteGame" =>
          \/ \E gameId \in { history[k].id : k \in 1..Len(history) } :
                \E k \in WithId(history, gameId) : history' = Without(history, k)
          \/ history' = history]_vars

------------------------------------------------------------------------------
\* The round descriptor and the winner of a completed game, checked under
\* SpecPlay.

\* C38: in every reachable state, the completed one included,
\* getCurrentRoundInfo() returns a descriptor whose cards is defined and is
\* round + 2, a number of 3..13.
C38_CardsIsRoundPlusTwo ==
    LET info == getCurrentRoundInfo(Game)
    IN  /\ info.round = currentRound
        /\ info.cards = Present(info.round + 2)
        /\ info.round + 2 \in 3..13

\* C37: whenever isGameComplete() is true, getWinner() returns an object
\* whose index is a position of the roster, whose name is players[index] and
\* whose score is a finite number, getPlayerTotal(index).
C37_CompleteGameHasAWinner ==
    isGameComplete(Game) =>
        LET o == getWinner(Game)
        IN  /\ o.ok
            /\ o.value # Absent
            /\ o.value[1].index \in 0..Len(players) - 1
            /\ o.value[1].name = Present(players[o.value[1].index + 1])
            /\ o.value[1].score # Infinity
            /\ getPlayerTotal(Game, o.value[1].index).ok
            /\ o.value[1].score = getPlayerTotal(Game, o.value[1].index).value

------------------------------------------------------------------------------
\* Submitting and taking back.

\* C36: a submitRound that is accepted, followed at once by undoLastRound,
\* gives back the game as it was before the submit: the same roster, the same
\* score cells and the same currentRound.
C36_UndoRestores ==
    \A roundScores \in ScoreLists :
        LET o == submitRound(Game, roundScores)
        IN  o.ok => /\ undoLastRound(o.g).ok
                    /\ undoLastRound(o.g).g = Game

------------------------------------------------------------------------------
\* The shape of the score matrix, checked under SpecRows.

\* C35: in a game started by startNewGame and played by submitRound with
\* scores and by undoLastRound, every player has a row, and every row has a
\* score in the columns 1..currentRound - 1 and null in the columns
\* currentRound..11.
C35_RowsFilledUpToRound ==
    /\ Len(scores) = Len(players)
    /\ \A i \in 1..Len(scores) :
          \A r \in 1..maxRounds : (scores[i][r] # Null) <=> (r < currentRound)

\* a round was taken back in a game of three that keeps its first round
C35_Witness ==
    /\ ret.op = "undoLastRound"
    /\ ret.ok
    /\ Len(players) = 3
    /\ currentRound = 2
    /\ scores[3][1] # Null
    /\ scores[3][2] = Null
====
